---- MODULE Spec2Model ----
(***************************************************************************)
(* Dr.Document: the documentation workflow (backend/workflow.py) and the   *)
(* stage agents it drives (backend/agents/*.py).                           *)
(*                                                                         *)
(* Texts.  A generated text is a sequence of lines, a line is a sequence   *)
(* of tokens, a token is a string without blanks: a text is the list      *)
(* text.split('\n') of its lines, so the empty Python string '' is the      *)
(* one empty line << <<>> >>, and '\n'.join(parts) is the concatenation of  *)
(* the parts' line lists.  A keyword test `kw in text.upper()` is a test   *)
(* that some token, upper-cased, has kw as a substring; keywords hold no   *)
(* blank, so no match spans two tokens.                                    *)
(***************************************************************************)
EXTENDS Integers, Sequences, FiniteSets, TLC

(***************************************************************************)
(* Bounds of the model.                                                    *)
(***************************************************************************)
MaxFiles == 2

\* headings of the job that requests are interleaved with
ApiMaxLen == 1
\* length, in tokens, of the review texts a verdict is extracted from on its own
MaxReviewTokens == 5
\* length, in tokens, of the review texts that hold keywords of both kinds
MaxTieTokens == 3
\* length, in lines, of the review texts a score is extracted from on its own
MaxScoreLines == 6
\* length, in lines, of the writer outputs that are trimmed on their own
MaxTrimLines == 5
\* length, in lines, of the selector answers that are parsed on their own
MaxHeadingLines == 4
MaxListLines == 4
MaxCount == 45
MaxFenceLines == 5
MaxListItems == 17

(***************************************************************************)
(* Program constants.                                                      *)
(***************************************************************************)
max_full_cycles == 3

\* (variant: one more attempt is allowed)
max_section_retries_more == 3 + 1

max_section_retries == 3
max_files_to_analyze == 90

(***************************************************************************)
(* WorkflowStatus                                                          *)
(***************************************************************************)
PENDING == "pending"
CLONING == "cloning"
SUMMARIZING == "summarizing"
SELECTING_HEADINGS == "selecting_headings"
WRITING_SECTIONS == "writing_sections"
MANAGER_REVIEW == "manager_review"
FINAL_REVIEW == "final_review"
COMPLETED == "completed"
FAILED == "failed"

WorkflowStatus ==
    { PENDING, CLONING, SUMMARIZING, SELECTING_HEADINGS, WRITING_SECTIONS,
      MANAGER_REVIEW, FINAL_REVIEW, COMPLETED, FAILED }

(***************************************************************************)
(* Python helpers.                                                         *)
(***************************************************************************)
Min(a, b) == IF a < b THEN a ELSE b
Max(a, b) == IF a > b THEN a ELSE b

\* d.get(key, default) on a dict modelled as a record
DictGet(d, key, default) == IF key \in DOMAIN d THEN d[key] ELSE default

\* the Python string ''
EmptyStr == << <<>> >>

\* '\n'.join(parts)
RECURSIVE JoinLines(_)
JoinLines(parts) ==
    IF parts = <<>> THEN EmptyStr
    ELSE IF Len(parts) = 1 THEN Head(parts)
    ELSE Head(parts) \o JoinLines(Tail(parts))

\* seq[:n]
Take(s, n) == SubSeq(s, 1, Min(n, Len(s)))

\* seq[n:]  (0-based n)
Drop(s, n) == SubSeq(s, n + 1, Len(s))

\* str.upper() of a token: the vocabulary is upper case but for these
Upper(tok) ==
    CASE tok = "approved" -> "APPROVED"
      [] tok = "yes" -> "YES"
      [] tok = "issues" -> "ISSUES"
      [] tok = "Features" -> "FEATURES"
      [] tok = "features" -> "FEATURES"
      [] tok = "Installation" -> "INSTALLATION"
      [] OTHER -> tok

\* str.lower() of a heading
Lower(tok) ==
    CASE tok = "Features" -> "features"
      [] tok = "FEATURES" -> "features"
      [] tok = "Installation" -> "installation"
      [] tok = "Usage" -> "usage"
      [] OTHER -> tok

\* kw in tok  (substring, both upper case): the pairs that are not equalities
SubPairs ==
    { <<"APPROVE", "APPROVED">>, <<"APPROVE", "DISAPPROVE">>,
      <<"APPROVED", "DISAPPROVED">>, <<"APPROVE", "DISAPPROVED">>,
      <<"REJECT", "REJECTED">>, <<"REJECT", "REJECTION">>,
      <<"REJECT", "REJECTED:">>, <<"REJECTED", "REJECTED:">>,
      <<"VERDICT", "VERDICT:">>, <<"IMPROVEMENT", "IMPROVEMENTS:">>,
      <<"SUGGESTION", "SUGGESTIONS:">>, <<"RECOMMENDATIONS", "RECOMMENDATIONS:">>,
      <<"ISSUES", "ISSUES:">>, <<"COMPLETENESS", "COMPLETENESS:">>,
      <<"ACCURACY", "ACCURACY:">>, <<"APPROVAL", "APPROVAL:">> }

Substr(kw, tok) == kw = tok \/ <<kw, tok>> \in SubPairs

\* kw in line.upper()
LineHas(line, kw) == \E j \in 1..Len(line) : Substr(kw, Upper(line[j]))

\* kw in text.upper()
Has(text, kw) == \E i \in 1..Len(text) : LineHas(text[i], kw)

\* the leading-blank token of an indented line; str.strip() removes it
INDENT == "INDENT"

\* line.strip()
Strip(line) ==
    IF Len(line) > 0 /\ line[1] = INDENT THEN Tail(line) ELSE line

\* the tokens made only of characters of '-(BUL)0123456789. '
\* "BUL" stands for the bullet character U+2022
BulletTokens == { "-", "BUL" }
NumberDotTokens == { "1.", "2.", "3.", "4.", "5.", "6." }
MarkerTokens == BulletTokens \cup NumberDotTokens

\* line.lstrip('-(BUL)0123456789. ') on a stripped line
RECURSIVE LstripMarkers(_)
LstripMarkers(line) ==
    IF Len(line) > 0 /\ line[1] \in MarkerTokens
    THEN LstripMarkers(Tail(line))
    ELSE line

\* line.startswith('-') or line.startswith(BUL) or
\* (line[0].isdigit() and '.' in line[:3]), on a stripped non-empty line
IsListItemLine(line) ==
    Len(line) > 0 /\ (line[1] \in BulletTokens \/ line[1] \in NumberDotTokens)

\* all tokens of a text in reading order
RECURSIVE Flatten(_)
Flatten(text) ==
    IF text = <<>> THEN <<>> ELSE Head(text) \o Flatten(Tail(text))

\* the number a token made of 1..3 digits denotes
NumberTokens == { "0", "40", "55", "85", "100", "150" }
NumVal(tok) ==
    CASE tok = "0" -> 0
      [] tok = "40" -> 40
      [] tok = "55" -> 55
      [] tok = "85" -> 85
      [] tok = "100" -> 100
      [] tok = "150" -> 150

\* tokens of the form N/100 and the N the group (\d{1,3}) captures
SlashTokens == { "40/100", "85/100", "150/100" }
SlashVal(tok) ==
    CASE tok = "40/100" -> 40
      [] tok = "85/100" -> 85
      [] tok = "150/100" -> 150

\* re.search(r'(\d{1,3})/100', s): the first match, as a set of at most one score
FirstIndex(hits) ==
    IF hits = {} THEN {} ELSE { CHOOSE i \in hits : \A j \in hits : i <= j }

IsSlashAt(toks, i) == toks[i] \in SlashTokens
\* r'[Ss]core[:\s]+(\d{1,3})' : "Score:" or "score:" or "Score", then a number
IsScoreAt(toks, i) ==
    /\ toks[i] \in { "Score:", "score:", "Score", "score" }
    /\ i < Len(toks)
    /\ toks[i + 1] \in NumberTokens \cup SlashTokens
\* r'(\d{1,3})\s+out of 100'
IsOutOfAt(toks, i) ==
    /\ toks[i] \in NumberTokens
    /\ i + 3 <= Len(toks)
    /\ toks[i + 1] = "out" /\ toks[i + 2] = "of" /\ toks[i + 3] \in { "100", "100." }
\* r':\s+(\d{1,3})' : a token ending in a colon, then a number
IsColonAt(toks, i) ==
    /\ toks[i] \in { "Score:", "score:", "COMPLETENESS:", "ACCURACY:", "VERDICT:" }
    /\ i < Len(toks)
    /\ toks[i + 1] \in NumberTokens \cup SlashTokens

NumOrSlashVal(tok) == IF tok \in SlashTokens THEN SlashVal(tok) ELSE NumVal(tok)

\* min(100, max(0, score))
\* (variant: only the lower end is clamped)
ClampBelowOnly(score) == Max(0, score)

Clamp(score) == Min(100, Max(0, score))

(***************************************************************************)
(* ManagerAgent (agents/manager.py)                                        *)
(***************************************************************************)
ManagerExtractApproval(review) ==
    IF Has(review, "YES") /\ Has(review, "APPROVAL") THEN TRUE
    ELSE IF Has(review, "APPROVED") THEN TRUE
    ELSE IF Has(review, "PROCEED") /\ Has(review, "YES") THEN TRUE
    ELSE FALSE

ManagerExtractQualityScore(review) ==
    LET toks == Flatten(review)
        m1 == FirstIndex({ i \in 1..Len(toks) : IsSlashAt(toks, i) })
        m2 == FirstIndex({ i \in 1..Len(toks) : IsScoreAt(toks, i) })
        m3 == FirstIndex({ i \in 1..Len(toks) : IsOutOfAt(toks, i) })
    IN  IF m1 # {} THEN Clamp(SlashVal(toks[CHOOSE i \in m1 : TRUE]))
        ELSE IF m2 # {} THEN Clamp(NumOrSlashVal(toks[(CHOOSE i \in m2 : TRUE) + 1]))
        ELSE IF m3 # {} THEN Clamp(NumVal(toks[CHOOSE i \in m3 : TRUE]))
        ELSE IF ManagerExtractApproval(review) THEN 70 ELSE 50

\* the loop of _extract_suggestions over lines[i..], with its in_suggestions flag
RECURSIVE ManagerSuggestionsFrom(_, _)
ManagerSuggestionsFrom(lines, in_suggestions) ==
    IF lines = <<>> THEN <<>>
    ELSE LET line == Head(lines)
             stripped == Strip(line)
             suggestion == LstripMarkers(stripped)
         IN  IF LineHas(line, "IMPROVEMENT") \/ LineHas(line, "SUGGESTION")
             THEN ManagerSuggestionsFrom(Tail(lines), TRUE)
             ELSE IF in_suggestions /\ IsListItemLine(stripped) /\ suggestion # <<>>
             THEN <<suggestion>> \o ManagerSuggestionsFrom(Tail(lines), in_suggestions)
             ELSE ManagerSuggestionsFrom(Tail(lines), in_suggestions)

ManagerExtractSuggestions(review) ==
    Take(ManagerSuggestionsFrom(review, FALSE), 10)

ManagerShouldRetry(review) ==
    IF ~ManagerExtractApproval(review)
    THEN LET score == ManagerExtractQualityScore(review)
         IN  40 <= score /\ score <= 70
    ELSE FALSE

\* the dict _write_and_review_sections hands to manager.run
ManagerInput(heading, content, summary, name) ==
    [ heading |-> heading, section_content |-> content,
      codebase_summary |-> summary, repo_name |-> name ]

\* _summarize_analyses(analyses): a line of counts and a line per sample file
SummarizeAnalyses(analyses) ==
    IF analyses = <<>> THEN << <<"No", "code", "analyses", "provided">> >>
    ELSE << <<"Total", "files", "analyzed:">> >>
         \o [ i \in 1..Min(3, Len(analyses)) |->
                <<"-">> \o DictGet(analyses[i], "file_path", <<"unknown">>) ]

\* _summarize_requirements(requirements): a line per kind of requirement
SummarizeRequirements(requirements) ==
    IF requirements = << >> THEN << <<"No", "requirements", "provided">> >>
    ELSE << <<"Functional", "Requirements:">>
              \o Flatten(Take(DictGet(requirements, "functional_requirements", <<>>), 3)),
            <<"Non-Functional", "Requirements:">>
              \o Flatten(Take(DictGet(requirements, "non_functional_requirements", <<>>), 3)),
            <<"Technical", "Stack:">>
              \o Flatten(Take(DictGet(requirements, "technical_stack", <<>>), 10)) >>

\* the prompt ManagerAgent.process builds from input_data: its fixed text and
\* the three parts it fills in
ManagerPrompt(input_data) ==
    << <<"You", "are", "a", "senior", "engineering", "manager", "reviewing",
         "documentation", "preparation", "work.">>,
       <<"Repository:">> \o DictGet(input_data, "repo_name", <<"Unknown", "Repository">>),
       <<"CODE", "ANALYSES", "SUMMARY:">> >>
    \o SummarizeAnalyses(DictGet(input_data, "code_analyses", <<>>))
    \o << <<"REQUIREMENTS", "EXTRACTED:">> >>
    \o SummarizeRequirements(DictGet(input_data, "requirements", << >>))
    \o << <<"Please", "review", "this", "work", "and", "provide:">> >>

\* the dict ManagerAgent.process returns for the generated review text
ManagerProcess(review_result) ==
    [ approved |-> ManagerExtractApproval(review_result),
      quality_score |-> ManagerExtractQualityScore(review_result),
      feedback |-> review_result,
      improvement_suggestions |-> ManagerExtractSuggestions(review_result),
      should_retry |-> ManagerShouldRetry(review_result) ]

(***************************************************************************)
(* FinalReviewerAgent (agents/final_reviewer.py)                           *)
(***************************************************************************)
\* nominal number of characters a token takes in a text, blank included:
\* it turns the character windows of the code into token windows
CharsPerToken == 100

VerdictIndex(toks) ==
    CHOOSE i \in 1..Len(toks) :
        /\ Substr("VERDICT", Upper(toks[i]))
        /\ \A j \in 1..(i - 1) : ~Substr("VERDICT", Upper(toks[j]))

\* tokens up to, and excluding, the first one that holds VERDICT
RECURSIVE UntilVerdict(_)
UntilVerdict(toks) ==
    IF toks = <<>> \/ Substr("VERDICT", Upper(Head(toks))) THEN <<>>
    ELSE <<Head(toks)>> \o UntilVerdict(Tail(toks))

\* review_upper.split('VERDICT')[1][:chars], for a review that holds VERDICT
VerdictSection(review, chars) ==
    LET toks == Flatten(review)
    IN  Take(UntilVerdict(Drop(toks, VerdictIndex(toks))), chars \div CharsPerToken)

SectionHas(toks, kw) == \E i \in 1..Len(toks) : Substr(kw, Upper(toks[i]))

approval_keywords == { "APPROVED", "ACCEPT", "APPROVE" }
rejection_keywords == { "REJECT", "DECLINED", "DENIED" }

FinalExtractApproval(review) ==
    LET has_approval == \E k \in approval_keywords : Has(review, k)
        has_rejection == \E k \in rejection_keywords : Has(review, k)
    IN  IF /\ Has(review, "APPROVE") /\ Has(review, "VERDICT")
           /\ ~SectionHas(VerdictSection(review, 200), "REJECT")
        THEN TRUE
        ELSE IF has_approval /\ has_rejection /\ Has(review, "VERDICT")
        THEN \E k \in approval_keywords :
                 SectionHas(VerdictSection(review, 300), k)
        ELSE has_approval /\ ~has_rejection

\* the four patterns of _extract_score tried in order on one search_text
ScoreInWindow(toks) ==
    LET m1 == FirstIndex({ i \in 1..Len(toks) : IsSlashAt(toks, i) })
        m2 == FirstIndex({ i \in 1..Len(toks) : IsScoreAt(toks, i) })
        m3 == FirstIndex({ i \in 1..Len(toks) : IsOutOfAt(toks, i) })
        m4 == FirstIndex({ i \in 1..Len(toks) : IsColonAt(toks, i) })
    IN  IF m1 # {} THEN { Clamp(SlashVal(toks[CHOOSE i \in m1 : TRUE])) }
        ELSE IF m2 # {} THEN { Clamp(NumOrSlashVal(toks[(CHOOSE i \in m2 : TRUE) + 1])) }
        ELSE IF m3 # {} THEN { Clamp(NumVal(toks[CHOOSE i \in m3 : TRUE])) }
        ELSE IF m4 # {} THEN { Clamp(NumOrSlashVal(toks[(CHOOSE i \in m4 : TRUE) + 1])) }
        ELSE {}

\* the loop of _extract_score from line i (1-based) on: the first score found
RECURSIVE FinalScoreFrom(_, _, _)
FinalScoreFrom(lines, i, category) ==
    IF i > Len(lines) THEN {}
    ELSE LET found == IF LineHas(lines[i], category)
                      THEN ScoreInWindow(Flatten(SubSeq(lines, i, Min(i + 4, Len(lines)))))
                      ELSE {}
         IN  IF found # {} THEN found ELSE FinalScoreFrom(lines, i + 1, category)

FinalExtractScore(review, category) ==
    LET found == FinalScoreFrom(review, 1, category)
    IN  IF found # {} THEN CHOOSE v \in found : TRUE
        ELSE IF FinalExtractApproval(review) THEN 75 ELSE 60

\* line.strip() and line.strip()[0].isdigit() and '.' in line[:5]
\* (an INDENT is four blanks or more, so an indented line has no dot in line[:5])
IsNumberedHeader(line) ==
    /\ Strip(line) # <<>>
    /\ Strip(line)[1] \in NumberDotTokens \cup NumberTokens \cup SlashTokens
    /\ line[1] \in NumberDotTokens

\* the loop of _extract_list over the remaining lines
RECURSIVE FinalListFrom(_, _, _)
FinalListFrom(lines, section_name, in_section) ==
    IF lines = <<>> THEN <<>>
    ELSE LET line == Head(lines)
             stripped == Strip(line)
             item == LstripMarkers(stripped)
         IN  IF LineHas(line, section_name)
             THEN FinalListFrom(Tail(lines), section_name, TRUE)
             ELSE IF in_section /\ IsNumberedHeader(line)
             THEN <<>>
             ELSE IF in_section /\ IsListItemLine(stripped) /\ item # <<>>
             THEN <<item>> \o FinalListFrom(Tail(lines), section_name, in_section)
             ELSE FinalListFrom(Tail(lines), section_name, in_section)

FinalExtractList(review, section_name) ==
    Take(FinalListFrom(review, section_name, FALSE), 15)

FinalRejectionResult(reason) ==
    [ approved |-> FALSE,
      completeness_score |-> 0,
      accuracy_score |-> 0,
      issues |-> <<reason>>,
      recommendations |-> << <<"Generate", "valid", "README", "content">> >>,
      final_verdict |-> << <<"REJECTED:">> \o reason >> ]

\* the dict FinalReviewerAgent.process returns once the review text is generated
FinalParse(review_result) ==
    [ approved |-> FinalExtractApproval(review_result),
      completeness_score |-> FinalExtractScore(review_result, "COMPLETENESS"),
      accuracy_score |-> FinalExtractScore(review_result, "ACCURACY"),
      issues |-> FinalExtractList(review_result, "ISSUES"),
      recommendations |-> FinalExtractList(review_result, "RECOMMENDATIONS"),
      final_verdict |-> review_result ]

(***************************************************************************)
(* SectionWriterAgent (agents/section_writer.py)                           *)
(***************************************************************************)
\* a line of blank space only
IsBlankLine(line) == Strip(line) = <<>>

RECURSIVE DropBlankHead(_)
DropBlankHead(lines) ==
    IF lines # <<>> /\ IsBlankLine(Head(lines)) THEN DropBlankHead(Tail(lines))
    ELSE lines

RECURSIVE DropBlankTail(_)
DropBlankTail(lines) ==
    IF lines # <<>> /\ IsBlankLine(lines[Len(lines)])
    THEN DropBlankTail(SubSeq(lines, 1, Len(lines) - 1))
    ELSE lines

\* text.strip(): the blank lines at either end and the blank space before the
\* first line go
StrStrip(text) ==
    LET kept == DropBlankTail(DropBlankHead(text))
    IN  IF kept = <<>> THEN EmptyStr
        ELSE << Strip(Head(kept)) >> \o Tail(kept)

\* tokens that start with a fence marker: "FENCE" stands for three backticks,
\* "TILDES" for three tildes, "FENCEpython" for three backticks and python
BareFenceTokens == { "FENCE", "TILDES" }
FenceTokens == BareFenceTokens \cup { "FENCEpython" }

\* stripped starts with a fence marker, and ' ' not in
\* stripped.lstrip(fence_char).strip()
TogglesFence(stripped) ==
    /\ Len(stripped) > 0
    /\ stripped[1] \in FenceTokens
    /\ IF stripped[1] \in BareFenceTokens THEN Len(stripped) <= 2
       ELSE Len(stripped) = 1

\* the 1-based index of the first and of the last line that is not blank
\* (Len + 1 and 0 when all are blank): the two while loops
FirstNonBlank(lines) ==
    IF \A i \in 1..Len(lines) : IsBlankLine(lines[i]) THEN Len(lines) + 1
    ELSE CHOOSE i \in 1..Len(lines) :
             /\ ~IsBlankLine(lines[i])
             /\ \A j \in 1..(i - 1) : IsBlankLine(lines[j])

LastNonBlank(lines) ==
    IF \A i \in 1..Len(lines) : IsBlankLine(lines[i]) THEN 0
    ELSE CHOOSE i \in 1..Len(lines) :
             /\ ~IsBlankLine(lines[i])
             /\ \A j \in (i + 1)..Len(lines) : IsBlankLine(lines[j])

\* first_line.startswith(FENCE)
StartsWithFence(stripped) ==
    Len(stripped) > 0 /\ stripped[1] \in { "FENCE", "FENCEpython" }

\* last_line.startswith(FENCE) and not last_line.lstrip of the fence character
IsBareFence(stripped) == stripped = << "FENCE" >>

\* SectionWriterAgent._strip_markdown_fence(content)
StripMarkdownFence(content) ==
    LET start == FirstNonBlank(content)
        end == LastNonBlank(content)
    IN  IF start > end THEN content
        ELSE IF StartsWithFence(Strip(content[start])) /\ IsBareFence(Strip(content[end]))
        THEN (IF start + 1 > end - 1 THEN EmptyStr
              ELSE SubSeq(content, start + 1, end - 1))
        ELSE content

\* (variant: a heading of the third level counts as well)
StartsTopHeadingAnyLevel(stripped) ==
    Len(stripped) >= 2 /\ stripped[1] \in { "#", "##", "###" }

\* stripped.startswith('# ') or stripped.startswith('## ')
StartsTopHeading(stripped) ==
    Len(stripped) >= 2 /\ stripped[1] \in { "#", "##" }

\* the loop of _trim_to_single_section over the lines left, with its flags
RECURSIVE TrimFrom(_, _, _)
TrimFrom(lines, found_main, in_code_fence) ==
    IF lines = <<>> THEN <<>>
    ELSE LET line == Head(lines)
             stripped == Strip(line)
             fence == IF TogglesFence(stripped) THEN ~in_code_fence
                      ELSE in_code_fence
             is_top_heading == ~fence /\ StartsTopHeading(stripped)
         IN  IF ~found_main
             THEN <<line>> \o TrimFrom(Tail(lines), is_top_heading, fence)
             ELSE IF is_top_heading THEN <<>>
             ELSE <<line>> \o TrimFrom(Tail(lines), TRUE, fence)

\* SectionWriterAgent._trim_to_single_section(content)
TrimToSingleSection(content) == StrStrip(TrimFrom(content, FALSE, FALSE))

(***************************************************************************)
(* HeadingsSelectorAgent (agents/headings_selector.py)                     *)
(***************************************************************************)
\* line.strip().lstrip('-(BUL)* 0123456789.')
RECURSIVE LstripHeadingMarkers(_)
LstripHeadingMarkers(line) ==
    IF Len(line) > 0 /\ line[1] \in MarkerTokens \cup { "*" } \cup NumberTokens
    THEN LstripHeadingMarkers(Tail(line))
    ELSE line

\* heading.lower()
LowerLine(line) == [ j \in 1..Len(line) |-> Lower(line[j]) ]

\* (variant: a heading is taken whether seen or not)
RECURSIVE ParseHeadingsNoDedup(_, _, _)
ParseHeadingsNoDedup(lines, headings, seen) ==
    IF lines = <<>> THEN headings
    ELSE LET heading == LstripHeadingMarkers(Strip(Head(lines)))
         IN  IF heading # <<>>
             THEN ParseHeadingsNoDedup(Tail(lines), Append(headings, heading), seen)
             ELSE ParseHeadingsNoDedup(Tail(lines), headings, seen)

\* the parsing loop of process: headings so far, lower-cased `seen`, lines left
RECURSIVE ParseHeadings(_, _, _)
ParseHeadings(lines, headings, seen) ==
    IF lines = <<>> THEN headings
    ELSE LET heading == LstripHeadingMarkers(Strip(Head(lines)))
         IN  IF heading # <<>> /\ LowerLine(heading) \notin seen
             THEN ParseHeadings(Tail(lines), Append(headings, heading),
                                seen \cup { LowerLine(heading) })
             ELSE ParseHeadings(Tail(lines), headings, seen)

\* result['headings'] of HeadingsSelectorAgent.process for the generated raw text
HeadingsProcess(raw) == ParseHeadings(raw, <<>>, {})

(***************************************************************************)
(* CodebaseSummarizerAgent (agents/codebase_summarizer.py)                 *)
(***************************************************************************)
\* summary.strip().replace('\n', ' ')
SummaryOneLine(summary) == Flatten(summary)

(***************************************************************************)
(* What the collaborators may return.                                      *)
(***************************************************************************)
\* get_repository_files: the first n files found, n = 0 included
FileLists == { [ i \in 1..n |-> i ] : n \in 0..MaxFiles }

\* read_file_content(file): the repository's first file holds text, its
\* second only blanks, its third cannot be read (None); then again
FileContents(file) ==
    CASE file % 3 = 1 -> { "text" }
      [] file % 3 = 2 -> { "blank" }
      [] OTHER -> { "none" }

\* the Gateway's answer to the summarizer: one sentence, here over two lines
SummaryTexts == { << <<"parses">>, <<"input">> >> }

\* the Gateway's answers to the heading selector
HeadingRaws ==
    { EmptyStr,
      << <<"-", "Features">> >>,
      << <<"Features">>, <<"1.", "features">>, <<"Installation">> >> }

\* decimal digit of a small number, as a token
Digit(n) ==
    CASE n = 0 -> "0" [] n = 1 -> "1" [] n = 2 -> "2" [] n = 3 -> "3"
      [] n = 4 -> "4" [] OTHER -> "9"

\* the section content writer.run returns for attempt a of heading h (0-based)
\* in cycle c: every call returns a text of its own, so that a content tells
\* which call produced it
Draft(c, h, a) ==
    << <<"##", "section", Digit(h)>>, <<"cycle", Digit(c), "attempt", Digit(a)>> >>

WriterContents(c, h, a) == { Draft(c, h, a) }

\* the Gateway's answers to the section reviewer
ManagerReviews ==
    { << <<"2.", "APPROVAL:", "YES">> >>,
      << <<"2.", "APPROVAL:", "NO">>,
         <<"4.", "IMPROVEMENTS:">>,
         <<INDENT, "-", "add", "examples">> >>,
      << <<"needs", "work">> >> }

\* the Gateway's answers to the document reviewer
FinalReviews ==
    { << <<"1.", "COMPLETENESS:", "85/100">>,
         <<"6.", "VERDICT:", "APPROVE">> >>,
      << <<"1.", "COMPLETENESS:", "40/100">>,
         <<"5.", "RECOMMENDATIONS:">>,
         <<INDENT, "-", "expand", "usage">>,
         <<"6.", "VERDICT:", "REJECT">> >> }

\* str(exc) of what a collaborator raises
GatewayErrors == { "rate limit" }
CloneError == "clone failed"
StorageError == "permission denied"
DiscoverError == "scan failed"
NoFilesError == "No supported files found in repository"

repo_name == <<"user/repo">>

(***************************************************************************)
(* State of one job: a DocumentationWorkflow running execute(repo_url).    *)
(***************************************************************************)
VARIABLES
    pc,                  \* where execute stands (the await it is suspended at)
    status, progress, result, error,          \* fields of the workflow object
    sink,                \* how the delivery of the last status update went
    exc,                 \* the exception in flight to the handler of execute
    files, codebase_summary, headings,        \* locals of execute
    cycle, final_readme, final_review_result, improvement_details,
    idx, lines, content,                      \* locals of _run_codebase_summarizer
    h_idx, attempt, improvement_notes,        \* locals of _write_and_review_sections
    section_content, review, approved_sections,
    cleanup_calls,       \* calls of GitHubClient.cleanup
    workflows,           \* main.py: the job ids held by the `workflows` dict
    reply,               \* the answer of the request handler that ran since
                         \* execute last suspended (NoReply if none ran)
    call,                \* one call of an agent's parsing function, on its own:
                         \* the function, its argument and what it returned
    pair,                \* two jobs of one process and the storage tree they write
    obs                  \* what an observer of the collaborators has recorded

wfVars == <<status, progress, result, error, sink>>
execVars == <<files, codebase_summary, headings, cycle, final_readme,
              final_review_result, improvement_details>>
sumVars == <<idx, lines, content>>
secVars == <<h_idx, attempt, improvement_notes, section_content, review,
             approved_sections>>
apiVars == <<workflows, reply>>
vars == <<pc, wfVars, exc, execVars, sumVars, secVars, cleanup_calls, apiVars,
          call, pair, obs>>

\* None where a string is expected, and None where a dict is expected
None == "none"
NoneObj == << >>

\* the id process_repository gave the job, and the empty answer slot
job_id == "job-1"
NoReply == [ op |-> "none", code |-> 0, detail |-> None ]

\* the ids process_repository gave two jobs
JobIds == { "job-A", "job-B" }

\* names extract_repo_name returns (owner/repository), one character a token
RepoNames == { << "a", "/", "b", ".", "c" >>,
               << "a", ".", "b", "/", "c" >>,
               << "a", "/", "c" >> }

\* the characters [\w\-] of _safe_dir_name that occur in the names
WordChars == { "a", "b", "c", "_", "-" }
SafeNameLen == 60

\* _safe_dir_name(name): re.sub(r'[^\w\-]', '_', name)[:60]
SafeDirName(name) ==
    SubSeq([ i \in 1..Len(name) |->
               IF name[i] \in WordChars THEN name[i] ELSE "_" ],
           1, Min(SafeNameLen, Len(name)))

\* os.path.join(self._base_storage, safe_repo) under the one storage_path
StorageDirs == { SafeDirName(n) : n \in RepoNames }

\* the files a job saves: (agent folder, file name)
Artifacts == { << "codebase_summarizer", "codebase.txt" >>,
               << "headings_selector", "headings.txt" >>,
               << "final_reviewer", "README.md" >> }

\* texts the agents hand to _save_text
ArtifactTexts == { "text-1", "text-2" }

\* a job id no request has been made for, and the process before any request
NoPairJob == [ pc |-> "none", repo_name |-> << >>, status |-> None,
               progress |-> 0, error |-> None, result |-> NoneObj,
               storage_dir |-> << >>,
               wrote |-> [ a \in Artifacts |-> None ] ]

NoPair == [ jobs |-> [ j \in JobIds |-> NoPairJob ],
            store |-> [ f \in StorageDirs \X Artifacts |-> None ] ]

\* no parsing function is called on its own
NoCall == [ fn |-> "none", arg |-> << >>, opt |-> None, out |-> None,
            done |-> FALSE, again |-> << >> ]

\* the observer's record: counts of calls made and what the last ones carried
ObsInit ==
    [ gw_called |-> FALSE,     \* some Gateway call was made
      summarized |-> << >>,    \* files summarizer.run returned a result for
      skipped |-> {},          \* files the summarizer loop went past with no line
      digested |-> FALSE,      \* _run_codebase_summarizer has returned
      raised |-> FALSE,        \* some collaborator or agent call raised
      gw_raised |-> {},        \* messages of the Gateway calls that raised
      gw_after_raise |-> 0,    \* Gateway calls made after one had raised
      gw_fatal |-> {},         \* messages of those that raised outside the summarizer
      gw_after_fatal |-> 0,    \* Gateway calls made after one of those
      writes |-> 0,            \* writer calls for the current heading, this cycle
      reviews |-> 0,           \* reviewer calls for the current heading, this cycle
      rejections |-> 0,        \* not-approved verdicts for it, this cycle
      approved_at |-> 0,       \* the attempt the reviewer approved, 0 if none yet
      sec_rejected |-> FALSE,  \* some section verdict of the job was not approved
      cyc_written |-> {},      \* headings (1-based) with a writer call this cycle
      review_req |-> << >>,    \* the last section-review request: heading, content, prompt
      prev_review_req |-> << >>,   \* the one before it
      writes_total |-> <<>>,   \* writer calls per heading in the job
      reviews_total |-> <<>>,  \* reviewer calls per heading in the job
      doc_reviews |-> 0,       \* document-review calls
      doc_rejections |-> 0,    \* not-approved document verdicts
      assemblies |-> 0,        \* documents assembled
      last_assembled |-> EmptyStr,  \* the last of them
      doc_approved_in |-> 0,   \* the cycle the document reviewer approved, 0 if none
      deletes_ok |-> 0,        \* delete requests answered with success
      gw_after_delete |-> FALSE ]  \* some Gateway call was made after the delete

\* a Gateway call is made (returning or raising)
ObsGateway(o) ==
    [ o EXCEPT !.gw_called = TRUE,
               !.gw_after_delete = @ \/ job_id \notin workflows,
               !.gw_after_raise = IF o.gw_raised # {} THEN @ + 1 ELSE @,
               !.gw_after_fatal = IF o.gw_fatal # {} THEN @ + 1 ELSE @ ]

\* a Gateway call raises msg
ObsGatewayRaise(o, msg) ==
    [ ObsGateway(o) EXCEPT !.raised = TRUE, !.gw_raised = @ \cup { msg } ]

\* a Gateway call of a stage after the summarizer raises msg
ObsGatewayFatal(o, msg) ==
    [ ObsGatewayRaise(o, msg) EXCEPT !.gw_fatal = @ \cup { msg } ]

\* status_callback(payload) of main.py: no connection for the job ("none"),
\* send_json returns ("ok"), or send_json raises and the callback logs and
\* swallows the exception ("raises"); the callback itself never raises
SinkOutcomes == { "ok", "raises", "none" }
Unobserved == "unobserved"

FieldsInit ==
    /\ pc = "start"
    /\ pair = NoPair
    /\ status = PENDING
    /\ progress = 0
    /\ result = NoneObj
    /\ error = None
    /\ exc = None
    /\ files = <<>>
    /\ codebase_summary = EmptyStr
    /\ headings = <<>>
    /\ cycle = 0
    /\ final_readme = EmptyStr
    /\ final_review_result = << >>
    /\ improvement_details = EmptyStr
    /\ idx = 0
    /\ lines = <<>>
    /\ content = None
    /\ h_idx = 0
    /\ attempt = 0
    /\ improvement_notes = EmptyStr
    /\ section_content = EmptyStr
    /\ review = << >>
    /\ approved_sections = <<>>
    /\ cleanup_calls = 0
    /\ workflows = { job_id }
    /\ reply = NoReply
    /\ obs = ObsInit

\* a job whose deliveries to the sink are not told apart
JobInit ==
    /\ FieldsInit
    /\ sink = Unobserved

Init ==
    /\ JobInit
    /\ call = NoCall

Deliver ==
    sink' \in IF sink = Unobserved THEN { Unobserved } ELSE SinkOutcomes

\* (variant: a send that raises is not caught and reaches execute's handler)
UpdateStatusSinkFatal(s, p) ==
    /\ Deliver
    /\ status' = IF sink' = "raises" THEN FAILED ELSE s
    /\ progress' = p

\* self._update_status(status, progress, ...): the fields are set, then the
\* payload is handed to the callback
UpdateStatus(s, p) ==
    /\ status' = s
    /\ progress' = p
    /\ Deliver

\* execute runs up to its next await: no request handler runs meanwhile, the
\* registry is left alone and the handler's answer has gone to its client
ExecuteStep ==
    /\ reply' = NoReply
    /\ UNCHANGED <<workflows, call, pair>>

\* (variant: no except clause, the exception leaves execute unhandled)
RaiseNoHandler(msg) ==
    /\ exc' = msg
    /\ pc' = "unhandled"
    /\ UNCHANGED <<status, error, sink>>

\* (variant: the handler reports a fixed message)
RaiseGeneric(msg) ==
    /\ exc' = msg
    /\ status' = FAILED
    /\ Deliver
    /\ error' = "Internal error"
    /\ pc' = "finally"

\* a raise inside the try of execute reaches `except Exception as exc`:
\* self.status = FAILED, self.error = str(exc), then the FAILED update is
\* awaited, the exception raised again and the finally clause run
Raise(msg) ==
    /\ exc' = msg
    /\ status' = FAILED
    /\ Deliver
    /\ error' = msg
    /\ pc' = "finally"

(***************************************************************************)
(* execute, steps 1 and 2: clone, storage directory, file discovery        *)
(***************************************************************************)
StartClone ==
    /\ pc = "start"
    /\ ExecuteStep
    /\ UpdateStatus(CLONING, 5)
    /\ pc' = "clone"
    /\ UNCHANGED <<result, error, exc, execVars, sumVars, secVars,
                   cleanup_calls, obs>>

\* clone_repository returns the path; os.makedirs of the storage directory
\* succeeds; the status becomes SUMMARIZING
CloneReturn ==
    /\ pc = "clone"
    /\ ExecuteStep
    /\ UpdateStatus(SUMMARIZING, 8)
    /\ pc' = "discover"
    /\ UNCHANGED <<result, error, exc, execVars, sumVars, secVars,
                   cleanup_calls, obs>>

\* clone_repository cleans up and re-raises
CloneRaise ==
    /\ pc = "clone"
    /\ ExecuteStep
    /\ Raise(CloneError)
    /\ cleanup_calls' = cleanup_calls + 1
    /\ obs' = [ obs EXCEPT !.raised = TRUE ]
    /\ UNCHANGED <<progress, result, execVars, sumVars, secVars>>

\* os.makedirs(self.storage_dir) raises after a successful clone
StorageRaise ==
    /\ pc = "clone"
    /\ ExecuteStep
    /\ Raise(StorageError)
    /\ obs' = [ obs EXCEPT !.raised = TRUE ]
    /\ UNCHANGED <<progress, result, execVars, sumVars, secVars, cleanup_calls>>

\* files[:max_files] when len(files) > max_files
LimitFiles(fs) ==
    IF Len(fs) > max_files_to_analyze THEN Take(fs, max_files_to_analyze) ELSE fs

\* (variant: an empty file list is not looked for)
DiscoverReturnUnchecked(fs) ==
    /\ pc = "discover"
    /\ ExecuteStep
    /\ files' = LimitFiles(fs)
    /\ idx' = 0
    /\ lines' = <<>>
    /\ pc' = "sum_loop"
    /\ UNCHANGED <<exc, status, error, sink>>
    /\ UNCHANGED <<progress, result, codebase_summary, headings, cycle, final_readme,
                   final_review_result, improvement_details, content, secVars,
                   cleanup_calls, obs>>

\* get_repository_files returns fs; an empty list raises ValueError; otherwise
\* _run_codebase_summarizer starts (its agent is constructed, its loop entered)
DiscoverReturn(fs) ==
    /\ pc = "discover"
    /\ ExecuteStep
    /\ IF fs = <<>>
       THEN /\ Raise(NoFilesError)
            /\ UNCHANGED <<files, idx, lines>>
       ELSE /\ files' = LimitFiles(fs)
            /\ idx' = 0
            /\ lines' = <<>>
            /\ pc' = "sum_loop"
            /\ UNCHANGED <<exc, status, error, sink>>
    /\ UNCHANGED <<progress, result, codebase_summary, headings, cycle, final_readme,
                   final_review_result, improvement_details, content, secVars,
                   cleanup_calls, obs>>

DiscoverRaise ==
    /\ pc = "discover"
    /\ ExecuteStep
    /\ Raise(DiscoverError)
    /\ obs' = [ obs EXCEPT !.raised = TRUE ]
    /\ UNCHANGED <<progress, result, execVars, sumVars, secVars, cleanup_calls>>

(***************************************************************************)
(* _run_codebase_summarizer                                                *)
(***************************************************************************)
\* 8 + int((idx / total) * 30)
SummarizeProgress(i, total) == 8 + ((i * 30) \div total)

\* top of the loop: the status update for file idx, then the file is read
SummarizeNext ==
    /\ pc = "sum_loop"
    /\ ExecuteStep
    /\ idx < Len(files)
    /\ UpdateStatus(SUMMARIZING, SummarizeProgress(idx, Len(files)))
    /\ pc' = "sum_read"
    /\ UNCHANGED <<result, error, exc, execVars, sumVars, secVars,
                   cleanup_calls, obs>>

\* read_file_content returns c; a falsy content skips the file
ReadReturn(c) ==
    /\ pc = "sum_read"
    /\ ExecuteStep
    /\ c \in FileContents(files[idx + 1])
    /\ content' = c
    /\ IF c = "none"
       THEN /\ idx' = idx + 1
            /\ pc' = "sum_loop"
            /\ obs' = [ obs EXCEPT !.skipped = @ \cup { files[idx + 1] } ]
       ELSE /\ idx' = idx
            /\ pc' = "sum_call"
            /\ obs' = obs
    /\ UNCHANGED <<wfVars, exc, execVars, lines, secVars, cleanup_calls>>

\* (variant: the path and the description with no separator)
DigestLineNoSeparator(file, summary) == <<file>> \o summary

\* f"{result['file_path']} = {result['summary']}"
DigestLine(file, summary) == <<file, "=">> \o summary

\* summarizer.run on a blank content answers 'Empty file' without the Gateway
SummarizeBlank ==
    /\ pc = "sum_call"
    /\ ExecuteStep
    /\ content = "blank"
    /\ lines' = Append(lines, DigestLine(files[idx + 1], <<"Empty", "file">>))
    /\ idx' = idx + 1
    /\ pc' = "sum_loop"
    /\ obs' = [ obs EXCEPT !.summarized = Append(@, files[idx + 1]) ]
    /\ UNCHANGED <<wfVars, exc, execVars, content, secVars, cleanup_calls>>

\* summarizer.run: the Gateway returns the summary
SummarizeReturn(summary) ==
    /\ pc = "sum_call"
    /\ ExecuteStep
    /\ content = "text"
    /\ lines' = Append(lines, DigestLine(files[idx + 1], SummaryOneLine(summary)))
    /\ idx' = idx + 1
    /\ pc' = "sum_loop"
    /\ obs' = [ ObsGateway(obs) EXCEPT !.summarized = Append(@, files[idx + 1]) ]
    /\ UNCHANGED <<wfVars, exc, execVars, content, secVars, cleanup_calls>>

\* summarizer.run raises: logged, the loop continues with the next file
SummarizeRaise(msg) ==
    /\ pc = "sum_call"
    /\ ExecuteStep
    /\ content = "text"
    /\ idx' = idx + 1
    /\ pc' = "sum_loop"
    /\ obs' = [ ObsGatewayRaise(obs, msg) EXCEPT !.skipped = @ \cup { files[idx + 1] } ]
    /\ UNCHANGED <<wfVars, exc, execVars, lines, content, secVars, cleanup_calls>>

\* the loop is over: the closing status update; '\n'.join(lines) is returned
SummarizeDone ==
    /\ pc = "sum_loop"
    /\ ExecuteStep
    /\ idx >= Len(files)
    /\ codebase_summary' = (IF lines = <<>> THEN EmptyStr ELSE lines)
    /\ UpdateStatus(SUMMARIZING, 38)
    /\ pc' = "headings_status"
    /\ idx' = 0 /\ lines' = <<>> /\ content' = None   \* the locals are gone
    /\ obs' = [ obs EXCEPT !.digested = TRUE ]
    /\ UNCHANGED <<result, error, exc, files, headings, cycle, final_readme,
                   final_review_result, improvement_details, secVars,
                   cleanup_calls>>

(***************************************************************************)
(* execute, step 4: the heading selector                                   *)
(***************************************************************************)
HeadingsStart ==
    /\ pc = "headings_status"
    /\ ExecuteStep
    /\ UpdateStatus(SELECTING_HEADINGS, 40)
    /\ pc' = "headings_call"
    /\ UNCHANGED <<result, error, exc, execVars, sumVars, secVars,
                   cleanup_calls, obs>>

\* headings_selector.run returns; the first cycle starts
HeadingsReturn(raw) ==
    /\ pc = "headings_call"
    /\ ExecuteStep
    /\ headings' = HeadingsProcess(raw)
    /\ UpdateStatus(SELECTING_HEADINGS, 42)
    /\ cycle' = 1
    /\ pc' = "cycle_start"
    /\ obs' = [ ObsGateway(obs) EXCEPT
                  !.writes_total = [ i \in 1..Len(HeadingsProcess(raw)) |-> 0 ],
                  !.reviews_total = [ i \in 1..Len(HeadingsProcess(raw)) |-> 0 ] ]
    /\ UNCHANGED <<result, error, exc, files, codebase_summary, final_readme,
                   final_review_result, improvement_details, sumVars, secVars,
                   cleanup_calls>>

HeadingsRaise(msg) ==
    /\ pc = "headings_call"
    /\ ExecuteStep
    /\ Raise(msg)
    /\ obs' = ObsGatewayFatal(obs, msg)
    /\ UNCHANGED <<progress, result, execVars, sumVars, secVars, cleanup_calls>>

(***************************************************************************)
(* _write_and_review_sections                                              *)
(***************************************************************************)
\* int(40 / max(total_headings, 1))
progress_per_heading(total_headings) == 40 \div Max(total_headings, 1)

\* 45 + h_idx * progress_per_heading
base_prog(h, total_headings) == 45 + h * progress_per_heading(total_headings)

\* the first value of improvement_notes for a heading
InitialNotes(global_improvement) == global_improvement

\* the function is entered for this cycle (its ManagerAgent constructed)
CycleStart ==
    /\ pc = "cycle_start"
    /\ ExecuteStep
    /\ approved_sections' = <<>>
    /\ h_idx' = 0
    /\ pc' = "heading_loop"
    /\ obs' = [ obs EXCEPT !.cyc_written = {} ]
    /\ UNCHANGED <<wfVars, exc, execVars, sumVars, attempt, improvement_notes,
                   section_content, review, cleanup_calls>>

\* top of the heading loop with a heading left: its locals are set and the
\* first attempt's WRITING_SECTIONS update is made
BeginHeading ==
    /\ pc = "heading_loop"
    /\ ExecuteStep
    /\ h_idx < Len(headings)
    /\ improvement_notes' = InitialNotes(improvement_details)
    /\ section_content' = EmptyStr
    /\ attempt' = 1
    /\ UpdateStatus(WRITING_SECTIONS, base_prog(h_idx, Len(headings)))
    /\ pc' = "write_call"
    /\ obs' = [ obs EXCEPT !.writes = 0, !.reviews = 0, !.rejections = 0,
                           !.approved_at = 0 ]
    /\ UNCHANGED <<result, error, exc, execVars, sumVars, h_idx, review,
                   approved_sections, cleanup_calls>>

\* writer.run returns its dict; MANAGER_REVIEW update
WriterReturn(c) ==
    /\ pc = "write_call"
    /\ ExecuteStep
    /\ section_content' = c
    /\ UpdateStatus(MANAGER_REVIEW, base_prog(h_idx, Len(headings)) + 1)
    /\ pc' = "review_call"
    /\ obs' = [ ObsGateway(obs) EXCEPT
                  !.writes = @ + 1,
                  !.writes_total[h_idx + 1] = @ + 1,
                  !.cyc_written = @ \cup { h_idx + 1 } ]
    /\ UNCHANGED <<result, error, exc, execVars, sumVars, h_idx, attempt,
                   improvement_notes, review, approved_sections, cleanup_calls>>

\* (variant: a failed writer call is made again for the same attempt)
WriterRaiseRetried(msg) ==
    /\ pc = "write_call"
    /\ ExecuteStep
    /\ obs.writes <= attempt
    /\ obs' = [ ObsGatewayFatal(obs, msg) EXCEPT
                  !.writes = @ + 1, !.writes_total[h_idx + 1] = @ + 1,
                  !.cyc_written = @ \cup { h_idx + 1 } ]
    /\ UNCHANGED <<pc, wfVars, exc, execVars, sumVars, secVars, cleanup_calls>>

WriterRaise(msg) ==
    /\ pc = "write_call"
    /\ ExecuteStep
    /\ Raise(msg)
    /\ obs' = [ ObsGatewayFatal(obs, msg) EXCEPT
                  !.writes = @ + 1, !.writes_total[h_idx + 1] = @ + 1,
                  !.cyc_written = @ \cup { h_idx + 1 } ]
    /\ UNCHANGED <<progress, result, execVars, sumVars, secVars, cleanup_calls>>

\* review.get('approved', False)
ReviewApproved(r) == DictGet(r, "approved", FALSE)

\* review.get('improvement_notes', '')
ReviewNotes(r) == DictGet(r, "improvement_notes", EmptyStr)

\* (variant: the bound is tested off by one)
RetryAfterLoose(r, a) == ~ReviewApproved(r) /\ a <= max_section_retries

\* (variant: the verdict is not looked at)
RetryAfterAlways(r, a) == a < max_section_retries

\* the attempt loop goes on after this verdict
RetryAfter(r, a) == ~ReviewApproved(r) /\ a < max_section_retries

\* the request of the reviewer call being made: what it is about and the
\* prompt the Gateway receives
ReviewRequest ==
    LET input_data == ManagerInput(headings[h_idx + 1], section_content,
                                   codebase_summary, repo_name)
    IN  [ heading |-> input_data.heading,
          content |-> input_data.section_content,
          prompt |-> ManagerPrompt(input_data) ]

\* a section-review call is made
ObsReview(o) ==
    [ ObsGateway(o) EXCEPT !.prev_review_req = o.review_req,
                           !.review_req = ReviewRequest ]

\* manager.run returns the verdict on this attempt
ReviewReturn(text) ==
    LET r == ManagerProcess(text)
    IN  /\ pc = "review_call"
        /\ ExecuteStep
        /\ review' = r
        /\ IF RetryAfter(r, attempt)
           THEN \* rejected with attempts left: the next attempt's status update
                /\ improvement_notes' = ReviewNotes(r)
                /\ attempt' = attempt + 1
                /\ UpdateStatus(WRITING_SECTIONS, base_prog(h_idx, Len(headings)))
                /\ pc' = "write_call"
           ELSE \* approved, or rejected on the last attempt
                /\ improvement_notes' =
                       IF ReviewApproved(r) THEN improvement_notes ELSE ReviewNotes(r)
                /\ attempt' = attempt
                /\ UpdateStatus(MANAGER_REVIEW, base_prog(h_idx, Len(headings)) + 2)
                /\ pc' = "section_done"
        /\ obs' = [ ObsReview(obs) EXCEPT
                      !.reviews = @ + 1,
                      !.reviews_total[h_idx + 1] = @ + 1,
                      !.rejections = IF ReviewApproved(r) THEN @ ELSE @ + 1,
                      !.sec_rejected = @ \/ ~ReviewApproved(r),
                      !.approved_at = IF ReviewApproved(r) THEN attempt ELSE @ ]
        /\ UNCHANGED <<result, error, exc, execVars, sumVars, h_idx,
                       section_content, approved_sections, cleanup_calls>>

ReviewRaise(msg) ==
    /\ pc = "review_call"
    /\ ExecuteStep
    /\ Raise(msg)
    /\ obs' = [ ObsGatewayFatal(ObsReview(obs), msg) EXCEPT
                  !.reviews = @ + 1, !.reviews_total[h_idx + 1] = @ + 1 ]
    /\ UNCHANGED <<progress, result, execVars, sumVars, secVars, cleanup_calls>>

\* {'heading': heading, 'content': section_content}
SectionEntry(heading, last_content) ==
    [ heading |-> heading, content |-> last_content ]

\* (variant: only an approved section is appended)
SectionDoneApprovedOnly ==
    /\ pc = "section_done"
    /\ ExecuteStep
    /\ approved_sections' =
           IF ReviewApproved(review)
           THEN Append(approved_sections,
                       SectionEntry(headings[h_idx + 1], section_content))
           ELSE approved_sections
    /\ h_idx' = h_idx + 1
    /\ pc' = "heading_loop"
    /\ UNCHANGED <<wfVars, exc, execVars, sumVars, attempt, improvement_notes,
                   section_content, review, cleanup_calls, obs>>

\* the attempt loop of the heading is left: approved_sections.append(...)
SectionDone ==
    /\ pc = "section_done"
    /\ ExecuteStep
    /\ approved_sections' =
           Append(approved_sections,
                  SectionEntry(headings[h_idx + 1], section_content))
    /\ h_idx' = h_idx + 1
    /\ pc' = "heading_loop"
    /\ UNCHANGED <<wfVars, exc, execVars, sumVars, attempt, improvement_notes,
                   section_content, review, cleanup_calls, obs>>

(***************************************************************************)
(* _combine_sections                                                       *)
(***************************************************************************)
\* parts = [f"# {repo_name}\n"], then section['content'] and '' per section
RECURSIVE SectionParts(_)
SectionParts(sections) ==
    IF sections = <<>> THEN <<>>
    ELSE <<Head(sections).content, EmptyStr>> \o SectionParts(Tail(sections))

CombineSections(name, sections) ==
    JoinLines(<< << <<"#">> \o name, <<>> >> >> \o SectionParts(sections))

(***************************************************************************)
(* execute, steps 5 to 7: the cycle loop, the final reviewer, the result   *)
(***************************************************************************)
\* (variant: six points a cycle)
FinalProgressSteep(c) == 88 + (c - 1) * 6

\* 88 + (cycle - 1) * 3
FinalProgress(c) == 88 + (c - 1) * 3

\* (variant: the heading loop is left after its first heading)
AssembleAfterFirst ==
    /\ pc = "heading_loop"
    /\ ExecuteStep
    /\ h_idx >= Min(1, Len(headings))
    /\ final_readme' = CombineSections(repo_name, approved_sections)
    /\ UpdateStatus(FINAL_REVIEW, FinalProgress(cycle))
    /\ pc' = "final_call"
    /\ obs' = [ obs EXCEPT
                  !.writes = 0, !.reviews = 0, !.rejections = 0, !.approved_at = 0,
                  !.assemblies = @ + 1,
                  !.last_assembled = CombineSections(repo_name, approved_sections) ]
    /\ h_idx' = 0 /\ attempt' = 0 /\ improvement_notes' = EmptyStr
    /\ section_content' = EmptyStr /\ review' = << >> /\ approved_sections' = <<>>
    /\ UNCHANGED <<result, error, exc, files, codebase_summary, headings, cycle,
                   final_review_result, improvement_details, sumVars,
                   cleanup_calls>>

\* the heading loop is over: the sections are returned and combined, and the
\* FINAL_REVIEW update of this cycle is made
Assemble ==
    /\ pc = "heading_loop"
    /\ ExecuteStep
    /\ h_idx >= Len(headings)
    /\ final_readme' = CombineSections(repo_name, approved_sections)
    /\ UpdateStatus(FINAL_REVIEW, FinalProgress(cycle))
    /\ pc' = "final_call"
    /\ obs' = [ obs EXCEPT
                  !.writes = 0, !.reviews = 0, !.rejections = 0, !.approved_at = 0,
                  !.assemblies = @ + 1,
                  !.last_assembled = CombineSections(repo_name, approved_sections) ]
    \* _write_and_review_sections has returned: its locals are gone
    /\ h_idx' = 0 /\ attempt' = 0 /\ improvement_notes' = EmptyStr
    /\ section_content' = EmptyStr /\ review' = << >> /\ approved_sections' = <<>>
    /\ UNCHANGED <<result, error, exc, files, codebase_summary, headings, cycle,
                   final_review_result, improvement_details, sumVars,
                   cleanup_calls>>

\* final_review_result.get('approved', False)
FinalApproved(r) == DictGet(r, "approved", FALSE)

\* final_review_result.get('improvement_details', '')
FinalNotes(r) == DictGet(r, "improvement_details", EmptyStr)

\* (variant: the last cycle is never run)
NextCycleAfterShort(r, c) == ~FinalApproved(r) /\ c < max_full_cycles - 1

\* (variant: the verdict is not looked at)
NextCycleAfterAlways(r, c) == c < max_full_cycles

\* the cycle loop goes on after this verdict
NextCycleAfter(r, c) == ~FinalApproved(r) /\ c < max_full_cycles

\* FinalReviewerAgent.process: an empty README is rejected without the Gateway
FinalProcess(readme_content, text) ==
    IF \A i \in 1..Len(readme_content) : Strip(readme_content[i]) = <<>>
    THEN FinalRejectionResult(<<"README", "content", "is", "empty">>)
    ELSE FinalParse(text)

\* final_reviewer.run returns the verdict on this cycle's document
FinalReturn(text) ==
    LET r == FinalProcess(final_readme, text)
    IN  /\ pc = "final_call"
        /\ ExecuteStep
        /\ final_review_result' = r
        /\ improvement_details' =
               IF FinalApproved(r) THEN improvement_details ELSE FinalNotes(r)
        /\ UpdateStatus(FINAL_REVIEW,
                        FinalProgress(cycle) + (IF FinalApproved(r) THEN 2 ELSE 1))
        /\ IF NextCycleAfter(r, cycle)
           THEN /\ cycle' = cycle + 1
                /\ pc' = "cycle_start"
           ELSE /\ cycle' = cycle
                /\ pc' = "finish"
        /\ obs' = [ ObsGateway(obs) EXCEPT
                      !.doc_reviews = @ + 1,
                      !.doc_rejections = IF FinalApproved(r) THEN @ ELSE @ + 1,
                      !.doc_approved_in = IF FinalApproved(r) THEN cycle ELSE @ ]
        /\ UNCHANGED <<result, error, exc, files, codebase_summary, headings,
                       final_readme, sumVars, secVars, cleanup_calls>>

FinalRaise(msg) ==
    /\ pc = "final_call"
    /\ ExecuteStep
    /\ Raise(msg)
    /\ obs' = [ ObsGatewayFatal(obs, msg) EXCEPT !.doc_reviews = @ + 1 ]
    /\ UNCHANGED <<progress, result, execVars, sumVars, secVars, cleanup_calls>>

\* (variant: a document that was never approved fails the job)
FinishStrict ==
    /\ pc = "finish"
    /\ ExecuteStep
    /\ UpdateStatus(IF FinalApproved(final_review_result) THEN COMPLETED ELSE FAILED,
                    100)
    /\ pc' = "set_result"
    /\ UNCHANGED <<result, error, exc, execVars, sumVars, secVars,
                   cleanup_calls, obs>>

\* the cycle loop is left: README.md is saved and the status becomes COMPLETED
Finish ==
    /\ pc = "finish"
    /\ ExecuteStep
    /\ UpdateStatus(COMPLETED, 100)
    /\ pc' = "set_result"
    /\ UNCHANGED <<result, error, exc, execVars, sumVars, secVars,
                   cleanup_calls, obs>>

\* (variant: the verdict is read under a key the reviewer does not return)
ResultOfWrongKey(readme, verdict) ==
    [ repo_name |-> repo_name,
      readme |-> readme,
      files_analyzed |-> Len(files),
      headings |-> headings,
      final_review |->
          [ approved |-> DictGet(verdict, "is_approved", FALSE),
            completeness_score |-> DictGet(verdict, "completeness_score", 0),
            accuracy_score |-> DictGet(verdict, "accuracy_score", 0) ] ]

\* the result dict of execute
ResultOf(readme, verdict) ==
    [ repo_name |-> repo_name,
      readme |-> readme,
      files_analyzed |-> Len(files),
      headings |-> headings,
      final_review |->
          [ approved |-> DictGet(verdict, "approved", FALSE),
            completeness_score |-> DictGet(verdict, "completeness_score", 0),
            accuracy_score |-> DictGet(verdict, "accuracy_score", 0) ] ]

\* (variant: building the result raises after the COMPLETED update)
SetResultRaises ==
    /\ pc = "set_result"
    /\ ExecuteStep
    /\ Raise("result not serializable")
    /\ UNCHANGED <<progress, result, execVars, sumVars, secVars, cleanup_calls,
                   obs>>

\* self.result = result; return result (the finally clause comes next)
SetResult ==
    /\ pc = "set_result"
    /\ ExecuteStep
    /\ result' = ResultOf(final_readme, final_review_result)
    /\ pc' = "finally"
    /\ UNCHANGED <<status, progress, error, sink, exc, execVars, sumVars, secVars,
                   cleanup_calls, obs>>

\* (variant: execute ends without the cleanup)
FinallyNoCleanup ==
    /\ pc = "finally"
    /\ ExecuteStep
    /\ pc' = "done"
    /\ UNCHANGED <<wfVars, exc, execVars, sumVars, secVars, obs, cleanup_calls>>

\* finally: self.github_client.cleanup()
Finally ==
    /\ pc = "finally"
    /\ ExecuteStep
    /\ cleanup_calls' = cleanup_calls + 1
    /\ pc' = "done"
    /\ UNCHANGED <<wfVars, exc, execVars, sumVars, secVars, obs>>

\* (a call that can return can also raise: the raises are listed first)
Next ==
    \/ CloneRaise
    \/ StorageRaise
    \/ DiscoverRaise
    \/ \E m \in GatewayErrors : SummarizeRaise(m)
    \/ \E m \in GatewayErrors : HeadingsRaise(m)
    \/ \E m \in GatewayErrors : WriterRaise(m)
    \/ \E m \in GatewayErrors : ReviewRaise(m)
    \/ \E m \in GatewayErrors : FinalRaise(m)
    \/ StartClone
    \/ CloneReturn
    \/ \E fs \in FileLists : DiscoverReturn(fs)
    \/ SummarizeNext
    \/ \E c \in { "text", "blank", "none" } : ReadReturn(c)
    \/ SummarizeBlank
    \/ \E t \in SummaryTexts : SummarizeReturn(t)
    \/ SummarizeDone
    \/ HeadingsStart
    \/ \E raw \in HeadingRaws : HeadingsReturn(raw)
    \/ CycleStart
    \/ BeginHeading
    \/ \E c \in WriterContents(cycle, h_idx, attempt) : WriterReturn(c)
    \/ \E t \in ManagerReviews : ReviewReturn(t)
    \/ SectionDone
    \/ Assemble
    \/ \E t \in FinalReviews : FinalReturn(t)
    \/ Finish
    \/ SetResult
    \/ Finally

Spec == Init /\ [][Next]_vars

(***************************************************************************)
(* The request handlers of main.py. Each is a coroutine without an await   *)
(* of its own: it runs as one step between two steps of execute.           *)
(***************************************************************************)
jobVars == <<pc, wfVars, exc, execVars, sumVars, secVars, cleanup_calls>>

NotFound(op) == [ op |-> op, code |-> 404, detail |-> "Job not found" ]

\* get_status(job_id): 404, or the status, the progress and the message
StatusReply ==
    IF job_id \notin workflows THEN NotFound("get_status")
    ELSE [ op |-> "get_status", code |-> 200,
           detail |-> [ status |-> status, progress |-> progress,
                        message |-> IF error # None THEN error
                                    ELSE "Processing" ] ]

GetStatus ==
    /\ reply' = StatusReply
    /\ UNCHANGED <<jobVars, workflows, obs, call, pair>>

\* get_result(job_id): 404, the error of a FAILED job, 400 before COMPLETED,
\* 500 when COMPLETED without a result, else the result
ResultReply ==
    IF job_id \notin workflows THEN NotFound("get_result")
    ELSE IF status = FAILED
    THEN [ op |-> "get_result", code |-> 500, detail |-> error ]
    ELSE IF status # COMPLETED
    THEN [ op |-> "get_result", code |-> 400, detail |-> "Job not completed yet" ]
    ELSE IF result = NoneObj
    THEN [ op |-> "get_result", code |-> 500, detail |-> "Result not available" ]
    ELSE [ op |-> "get_result", code |-> 200, detail |-> result ]

\* (variant: the error of a FAILED job is replaced by a fixed text)
GetResultHidesError ==
    /\ reply' = IF job_id \in workflows /\ status = FAILED
                THEN [ op |-> "get_result", code |-> 500,
                       detail |-> "Internal Server Error" ]
                ELSE ResultReply
    /\ UNCHANGED <<jobVars, workflows, obs, call, pair>>

GetResult ==
    /\ reply' = ResultReply
    /\ UNCHANGED <<jobVars, workflows, obs, call, pair>>

\* (variant: the entry is not removed from the registry)
DeleteJobKeepsEntry ==
    /\ reply' = IF job_id \notin workflows THEN NotFound("delete")
                ELSE [ op |-> "delete", code |-> 200,
                       detail |-> "Job deleted successfully" ]
    /\ obs' = IF job_id \in workflows
              THEN [ obs EXCEPT !.deletes_ok = Min(@ + 1, 2) ] ELSE obs
    /\ UNCHANGED <<jobVars, workflows, call, pair>>

\* (variant: the delete also cancels the task that runs execute)
DeleteJobCancelsTask ==
    /\ reply' = IF job_id \notin workflows THEN NotFound("delete")
                ELSE [ op |-> "delete", code |-> 200,
                       detail |-> "Job deleted successfully" ]
    /\ workflows' = workflows \ { job_id }
    /\ pc' = IF job_id \in workflows THEN "done" ELSE pc
    /\ obs' = IF job_id \in workflows
              THEN [ obs EXCEPT !.deletes_ok = Min(@ + 1, 2) ] ELSE obs
    /\ UNCHANGED <<wfVars, exc, execVars, sumVars, secVars, cleanup_calls, call, pair>>

\* delete_job(job_id): 404, or the entry is removed (no directory named after
\* the job id is ever created under the storage path, so none is removed)
DeleteJob ==
    /\ reply' = IF job_id \notin workflows THEN NotFound("delete")
                ELSE [ op |-> "delete", code |-> 200,
                       detail |-> "Job deleted successfully" ]
    /\ workflows' = workflows \ { job_id }
    /\ obs' = IF job_id \in workflows
              THEN [ obs EXCEPT !.deletes_ok = Min(@ + 1, 2) ] ELSE obs
    /\ UNCHANGED <<jobVars, call, pair>>

\* the inputs of the job the requests are interleaved with: a repository of
\* at most one file (any of the kinds of file) and at most ApiMaxLen headings
ApiFileLists == { <<>> } \cup { <<f>> : f \in 1..MaxFiles }
ApiHeadingRaws == { raw \in HeadingRaws : Len(HeadingsProcess(raw)) <= ApiMaxLen }

\* the steps of the task that runs execute
ApiJobNext ==
    \/ CloneRaise
    \/ StorageRaise
    \/ DiscoverRaise
    \/ \E m \in GatewayErrors : SummarizeRaise(m)
    \/ \E m \in GatewayErrors : HeadingsRaise(m)
    \/ \E m \in GatewayErrors : WriterRaise(m)
    \/ \E m \in GatewayErrors : ReviewRaise(m)
    \/ \E m \in GatewayErrors : FinalRaise(m)
    \/ StartClone
    \/ CloneReturn
    \/ \E fs \in ApiFileLists : DiscoverReturn(fs)
    \/ SummarizeNext
    \/ \E c \in { "text", "blank", "none" } : ReadReturn(c)
    \/ SummarizeBlank
    \/ \E t \in SummaryTexts : SummarizeReturn(t)
    \/ SummarizeDone
    \/ HeadingsStart
    \/ \E raw \in ApiHeadingRaws : HeadingsReturn(raw)
    \/ CycleStart
    \/ BeginHeading
    \/ \E c \in WriterContents(cycle, h_idx, attempt) : WriterReturn(c)
    \/ \E t \in ManagerReviews : ReviewReturn(t)
    \/ SectionDone
    \/ Assemble
    \/ \E t \in FinalReviews : FinalReturn(t)
    \/ Finish
    \/ SetResult
    \/ Finally

\* one job, with get_status, get_result and delete requests handled between
\* the steps of execute
ApiNext ==
    \/ ApiJobNext
    \/ GetStatus
    \/ GetResult
    \/ DeleteJob

ApiSpec == Init /\ [][ApiNext]_vars

\* one job whose deliveries to the sink succeed, raise or find no connection
SinkInit ==
    /\ FieldsInit
    /\ sink = "ok"
    /\ call = NoCall

SinkSpec == SinkInit /\ [][ApiJobNext]_vars

\* the event loop resumes the task created for execute whatever requests it
\* serves in between
ApiFairSpec == ApiSpec /\ WF_vars(ApiJobNext)

(***************************************************************************)
(* The agents' parsing functions, each called on its own on a text.        *)
(***************************************************************************)
\* review texts of one line: a verdict marker, the keywords and a filler word
VerdictVocab == { "VERDICT:", "APPROVE", "REJECT", "ACCEPT", "fine" }

\* review texts of one line: keywords of approval and of rejection, the words
\* of the section reviewer's decision line, a verdict marker
TieVocab == { "APPROVED", "ACCEPT", "REJECTED", "DENIED", "APPROVAL:", "YES",
              "VERDICT:" }

\* review texts of at most MaxScoreLines lines: a category label alone, a
\* score before the label, a score too large, a verdict
ScoreLines == { <<"COMPLETENESS:">>, <<"85/100", "COMPLETENESS:">>,
                <<"Score:", "150">>, <<"VERDICT:", "APPROVE">> }

\* writer outputs of at most MaxTrimLines lines: headings of three levels,
\* prose, a blank line, and fence lines that are bare, carry a language
\* identifier, or carry an info string with a space in it
TrimLines == { <<"#", "Title">>, <<"##", "Usage">>, <<"###", "Detail">>,
               <<"prose">>, <<>>,
               <<"FENCE">>, <<"FENCEpython">>, <<"FENCEpython", "title">> }

\* the candidate headings in the preferred documentation order, word by word
CANDIDATE_HEADINGS ==
    << << "Abstract" >>,
       << "Key", "Highlights" >>,
       << "Features" >>,
       << "Dataset", "&", "Training", "Details" >>,
       << "Methodology" >>,
       << "Results", "&", "Visualizations" >>,
       << "Architecture" >>,
       << "Tech", "Stack" >>,
       << "Dependencies", "&", "Packages" >>,
       << "Prerequisites" >>,
       << "Installation" >>,
       << "Quick", "Start" >>,
       << "Usage" >>,
       << "API", "Endpoints" >>,
       << "Configuration" >>,
       << "Environment", "Variables" >>,
       << "Model", "Setup", "&", "Training" >>,
       << "Project", "Structure" >>,
       << "Table", "of", "Contents" >>,
       << "Documentation" >>,
       << "Submodules" >>,
       << "Development" >>,
       << "Deployment" >>,
       << "Security" >>,
       << "Contributing" >>,
       << "Code", "of", "Conduct" >>,
       << "Citation" >>,
       << "Contact" >>,
       << "License" >>,
       << "Acknowledgments" >> >>

\* selector answers of at most MaxHeadingLines lines: headings in several
\* spellings, bare or as list items, and a blank line
HeadingLines == { <<"Features">>, <<"features">>, <<"-", "FEATURES">>,
                  <<"Installation">>, <<"1.", "installation">>, <<"Usage">>,
                  <<>> }

\* lines of a document review around its ISSUES section: the label line, the
\* header of the next section, list items (bulleted, numbered and indented,
\* one naming the section's word, one with nothing after its marker), a line
\* of prose
ListLines == { <<"4.", "ISSUES:">>, <<"5.", "RECOMMENDATIONS:">>,
               <<"-", "add", "tests">>, <<INDENT, "1.", "fix", "links">>,
               <<"-", "known", "issues">>, <<"-">>, <<"note">> }

\* a review whose ISSUES section has n bulleted items
LongList(n) ==
    << <<"4.", "ISSUES:">> >> \o
    [ i \in 1..n |-> IF i % 2 = 1 THEN <<"-", "add", "tests">>
                                  ELSE <<"BUL", "fix", "links">> ]

\* lines of a writer's answer: fence lines that are bare or carry a language
\* identifier, prose, code, and a blank line
FenceLines == { <<"FENCE">>, <<"FENCEpython">>, <<"prose">>, <<"code">>, <<>> }

\* function fn of an agent is about to be called on a text, with opt as its
\* second argument if it has one
Called(fn, text, opt) ==
    call = [ fn |-> fn, arg |-> text, opt |-> opt, out |-> None,
             done |-> FALSE, again |-> << >> ]

\* one call, of any of the functions on any of its texts
AgentInit ==
    /\ JobInit
    /\ \/ \E k \in 0..MaxReviewTokens : \E toks \in [ 1..k -> VerdictVocab ] :
              Called("final_extract_approval", << toks >>, None)
       \/ \E k \in 0..MaxTieTokens : \E toks \in [ 1..k -> TieVocab ] :
              \/ Called("final_extract_approval", << toks >>, None)
              \/ Called("manager_extract_approval", << toks >>, None)
       \/ \E k \in 1..MaxScoreLines : \E text \in [ 1..k -> ScoreLines ] :
              Called("final_extract_score", text, "COMPLETENESS")
       \/ \E k \in 1..MaxTrimLines : \E text \in [ 1..k -> TrimLines ] :
              Called("trim_to_single_section", text, None)
       \/ \E k \in 1..MaxHeadingLines : \E raw \in [ 1..k -> HeadingLines ] :
              Called("headings_process", raw, None)
       \/ \E k \in 1..MaxListLines : \E text \in [ 1..k -> ListLines ] :
              Called("final_extract_list", text, "ISSUES")
       \/ \E k \in 1..MaxFenceLines : \E text \in [ 1..k -> FenceLines ] :
              Called("strip_markdown_fence", text, None)
       \/ \E n \in (MaxListLines + 1)..MaxListItems :
              Called("final_extract_list", LongList(n), "ISSUES")

\* the call returns v
Returns(v) ==
    /\ ~call.done
    /\ call' = [ call EXCEPT !.out = v, !.done = TRUE ]
    /\ UNCHANGED <<pc, wfVars, exc, execVars, sumVars, secVars, cleanup_calls,
                   apiVars, obs, pair>>

\* FinalReviewerAgent._extract_approval(review)
FinalExtractApprovalCall ==
    /\ call.fn = "final_extract_approval"
    /\ Returns(FinalExtractApproval(call.arg))

\* ManagerAgent._extract_approval(review)
ManagerExtractApprovalCall ==
    /\ call.fn = "manager_extract_approval"
    /\ Returns(ManagerExtractApproval(call.arg))

\* FinalReviewerAgent._extract_score(review, category)
FinalExtractScoreCall ==
    /\ call.fn = "final_extract_score"
    /\ Returns(FinalExtractScore(call.arg, call.opt))

\* the same call made a second time
FinalExtractScoreAgain ==
    /\ call.fn = "final_extract_score"
    /\ call.done
    /\ call.again = << >>
    /\ call' = [ call EXCEPT !.again = << FinalExtractScore(call.arg, call.opt) >> ]
    /\ UNCHANGED <<pc, wfVars, exc, execVars, sumVars, secVars, cleanup_calls,
                   apiVars, obs, pair>>

\* SectionWriterAgent._trim_to_single_section(content)
TrimToSingleSectionCall ==
    /\ call.fn = "trim_to_single_section"
    /\ Returns(TrimToSingleSection(call.arg))

\* the parsing of HeadingsSelectorAgent.process(...) on the generated raw text
HeadingsProcessCall ==
    /\ call.fn = "headings_process"
    /\ Returns(HeadingsProcess(call.arg))

\* FinalReviewerAgent._extract_list(review, section_name)
FinalExtractListCall ==
    /\ call.fn = "final_extract_list"
    /\ Returns(FinalExtractList(call.arg, call.opt))

\* SectionWriterAgent._strip_markdown_fence(content)
StripMarkdownFenceCall ==
    /\ call.fn = "strip_markdown_fence"
    /\ Returns(StripMarkdownFence(call.arg))

AgentNext ==
    \/ TrimToSingleSectionCall
    \/ StripMarkdownFenceCall
    \/ FinalExtractListCall
    \/ HeadingsProcessCall
    \/ FinalExtractApprovalCall
    \/ FinalExtractScoreCall
    \/ FinalExtractScoreAgain
    \/ ManagerExtractApprovalCall

AgentSpec == AgentInit /\ [][AgentNext]_vars

\* the event loop resumes a task whose awaited call has returned or raised(***************************************************************************)
(* Two jobs running in one process: each has its own workflow object in    *)
(* the workflows dict, both write under settings.storage_path.             *)
(***************************************************************************)

soloVars == <<pc, wfVars, exc, execVars, sumVars, secVars, cleanup_calls,
              apiVars, call, obs>>

\* _save_text(agent_folder, filename, content) of the job with this storage_dir
SaveText(store, dir, a, text) == [ store EXCEPT ![<<dir, a>>] = text ]

\* one step of job j: its fields become f, and it saves text as artifact a
PairSave(j, f, a, text) ==
    pair' = [ jobs |-> [ pair.jobs EXCEPT ![j] =
                           [ f EXCEPT !.wrote[a] = text ] ],
              store |-> SaveText(pair.store, f.storage_dir, a, text) ]

\* process_repository(request): a workflow object under a fresh job id
PairProcessRepository(j, name) ==
    /\ pair.jobs[j].pc = "none"
    /\ pair' = [ pair EXCEPT !.jobs[j] =
                   [ @ EXCEPT !.pc = "start", !.repo_name = name,
                              !.status = PENDING ] ]
    /\ UNCHANGED soloVars

\* execute up to the creation of the storage directory
PairClone(j) ==
    /\ pair.jobs[j].pc = "start"
    /\ pair' = [ pair EXCEPT !.jobs[j] =
                   [ @ EXCEPT !.pc = "clone", !.status = CLONING,
                              !.progress = 5,
                              !.storage_dir = SafeDirName(pair.jobs[j].repo_name) ] ]
    /\ UNCHANGED soloVars

\* the summarizer stage, saving codebase.txt
PairSummarize(j, text) ==
    /\ pair.jobs[j].pc = "clone"
    /\ PairSave(j, [ pair.jobs[j] EXCEPT !.pc = "summarize",
                                         !.status = SUMMARIZING,
                                         !.progress = 38 ],
                << "codebase_summarizer", "codebase.txt" >>, text)
    /\ UNCHANGED soloVars

\* the heading selection, saving headings.txt
PairSelectHeadings(j, text) ==
    /\ pair.jobs[j].pc = "summarize"
    /\ PairSave(j, [ pair.jobs[j] EXCEPT !.pc = "headings",
                                         !.status = SELECTING_HEADINGS,
                                         !.progress = 42 ],
                << "headings_selector", "headings.txt" >>, text)
    /\ UNCHANGED soloVars

\* a first cycle the document reviewer approves, saving README.md
PairWriteReadme(j, text) ==
    /\ pair.jobs[j].pc = "headings"
    /\ PairSave(j, [ pair.jobs[j] EXCEPT !.pc = "readme",
                                         !.status = FINAL_REVIEW,
                                         !.progress = FinalProgress(1) + 2 ],
                << "final_reviewer", "README.md" >>, text)
    /\ UNCHANGED soloVars

\* COMPLETED and the result, with storage_path the job's storage_dir
PairComplete(j) ==
    /\ pair.jobs[j].pc = "readme"
    /\ pair' = [ pair EXCEPT !.jobs[j] =
                   [ @ EXCEPT !.pc = "done", !.status = COMPLETED,
                              !.progress = 100,
                              !.result =
                                  [ readme |-> pair.jobs[j].wrote[<< "final_reviewer", "README.md" >>],
                                    storage_path |-> pair.jobs[j].storage_dir ] ] ]
    /\ UNCHANGED soloVars

\* a collaborator or agent call of the job raises: the handler of execute
PairRaise(j) ==
    /\ pair.jobs[j].pc \in { "start", "clone", "summarize", "headings" }
    /\ pair' = [ pair EXCEPT !.jobs[j] =
                   [ @ EXCEPT !.pc = "done", !.status = FAILED,
                              !.error = "gateway error" ] ]
    /\ UNCHANGED soloVars

\* the event loop runs a request or resumes either task
PairNext ==
    \E j \in JobIds :
        \/ \E name \in RepoNames : PairProcessRepository(j, name)
        \/ PairClone(j)
        \/ \E text \in ArtifactTexts : PairSummarize(j, text)
        \/ \E text \in ArtifactTexts : PairSelectHeadings(j, text)
        \/ \E text \in ArtifactTexts : PairWriteReadme(j, text)
        \/ PairComplete(j)
        \/ PairRaise(j)

PairSpec == Init /\ [][PairNext]_vars


FairSpec == Spec /\ WF_vars(Next)

(***************************************************************************)
(* Properties                                                              *)
(***************************************************************************)
Terminal == { COMPLETED, FAILED }

\* the attempt loop of heading h_idx - 1 has just been left (its section is
\* appended, the next heading or the assembly comes next)
HeadingLeft == pc = "heading_loop" /\ h_idx > 0

\* C1: a heading whose every attempt was rejected gets exactly 3 writer calls
\* and 3 reviewer calls in the cycle, no 4th attempt is started, the loop moves
\* on, and the content kept for it is the one the 3rd writer call returned.
C1_AllRejectedKeepsThird ==
    /\ (obs.rejections >= 3 => pc \notin { "write_call", "review_call" })
    /\ (pc = "section_done" /\ obs.approved_at = 0) =>
           /\ obs.writes = 3 /\ obs.reviews = 3 /\ obs.rejections = 3
           /\ section_content = Draft(cycle, h_idx, 3)
    /\ (HeadingLeft /\ obs.approved_at = 0) =>
           /\ obs.writes = 3 /\ obs.reviews = 3 /\ obs.rejections = 3
           /\ Len(approved_sections) = h_idx
           /\ approved_sections[h_idx].content = Draft(cycle, h_idx - 1, 3)

C1_Witness == HeadingLeft /\ obs.approved_at = 0 /\ obs.rejections = 3

\* C2: when the document reviewer rejects in every cycle and nothing raises,
\* execute ends after exactly 3 assemblies and 3 document reviews, COMPLETED,
\* with the document assembled in the 3rd cycle as the result's readme.
C2_AllCyclesRejected ==
    (pc = "done" /\ cycle >= 1 /\ exc = None /\ obs.doc_approved_in = 0) =>
        /\ cycle = 3
        /\ obs.assemblies = 3 /\ obs.doc_reviews = 3 /\ obs.doc_rejections = 3
        /\ status = COMPLETED
        /\ error = None
        /\ result # NoneObj
        /\ result.readme = obs.last_assembled

C2_Witness ==
    /\ pc = "done" /\ status = COMPLETED /\ obs.doc_rejections = 3
    /\ Len(headings) = 2

\* C3: every started job eventually has the status COMPLETED or FAILED, when
\* every awaited call eventually returns or raises.
C3_EventuallyTerminal == <>(status \in Terminal)

C3_Witness == pc = "done" /\ status = COMPLETED /\ obs.doc_rejections = 3

\* C4 as claimed: a job is FAILED only if some collaborator or agent call
\* raised; if none raised the job ends COMPLETED with a document.
C4_FailedOnlyIfRaised ==
    /\ (status = FAILED => obs.raised)
    /\ (pc = "done" /\ ~obs.raised) => (status = COMPLETED /\ result # NoneObj)

\* C4 as amended: a job is FAILED only if some collaborator or agent call
\* raised or file discovery returned no file; if no call raised and a file was
\* found, the job ends COMPLETED with the last assembled document, whatever the
\* section and document verdicts were.
C4_FailedOnlyIfRaisedOrNoFiles ==
    /\ (status = FAILED => (obs.raised \/ error = NoFilesError))
    /\ (status = FAILED /\ ~obs.raised) => (files = <<>> /\ obs.doc_reviews = 0)
    /\ (pc = "done" /\ ~obs.raised /\ files # <<>>) =>
           /\ status = COMPLETED
           /\ error = None
           /\ result # NoneObj
           /\ result.readme = obs.last_assembled

C4_Witness ==
    /\ pc = "done" /\ ~obs.raised /\ status = COMPLETED
    /\ obs.doc_rejections = 3 /\ obs.writes_total = <<3, 3>>

\* C5: the attempt number never exceeds 3 and the cycle number never exceeds
\* 3; a job makes at most 9 writer calls and 9 section-review calls per heading
\* and at most 3 document-review calls.
C5_BoundedRetries ==
    /\ attempt <= 3
    /\ cycle <= 3
    /\ obs.writes <= 3 /\ obs.reviews <= 3
    /\ \A h \in DOMAIN obs.writes_total :
           obs.writes_total[h] <= 9 /\ obs.reviews_total[h] <= 9
    /\ obs.doc_reviews <= 3 /\ obs.assemblies <= 3

C5_Witness ==
    /\ Len(headings) = 2
    /\ obs.writes_total = <<9, 9>> /\ obs.reviews_total = <<9, 9>>
    /\ obs.doc_reviews = 3 /\ cycle = 3

\* C6: once the reviewer has approved attempt k of a heading, no further
\* writer or reviewer call is made for it in the cycle, and the content kept
\* for the heading is the one attempt k's writer call returned.
C6_ApprovedStops ==
    obs.approved_at > 0 =>
        /\ pc \in { "section_done", "heading_loop" }
        /\ obs.writes = obs.approved_at /\ obs.reviews = obs.approved_at
        /\ pc = "section_done" =>
               section_content = Draft(cycle, h_idx, obs.approved_at)
        /\ pc = "heading_loop" =>
               /\ h_idx > 0 /\ Len(approved_sections) = h_idx
               /\ approved_sections[h_idx].content =
                      Draft(cycle, h_idx - 1, obs.approved_at)

C6_Witness == HeadingLeft /\ obs.approved_at = 2 /\ cycle = 2

\* C7: once the document reviewer has approved in cycle c, no further cycle
\* is started (no writer, section-review or document-review call follows), the
\* job becomes COMPLETED, and the result holds the document assembled in cycle
\* c with final_review.approved true.
C7_DocApprovedStops ==
    obs.doc_approved_in > 0 =>
        /\ pc \in { "finish", "set_result", "finally", "done" }
        /\ cycle = obs.doc_approved_in
        /\ obs.doc_reviews = cycle /\ obs.assemblies = cycle
        /\ exc = None
        /\ pc \in { "set_result", "finally", "done" } => status = COMPLETED
        /\ pc \in { "finally", "done" } =>
               /\ result # NoneObj
               /\ result.readme = obs.last_assembled
               /\ result.final_review.approved = TRUE

C7_Witness == pc = "done" /\ obs.doc_approved_in = 2 /\ status = COMPLETED

\* the section verdict carries improvement notes for the writer
SectionVerdictHasNotes(r) == DictGet(r, "improvement_suggestions", <<>>) # <<>>

\* the document verdict carries improvement notes for the next cycle
DocVerdictHasNotes(r) ==
    \/ DictGet(r, "recommendations", <<>>) # <<>>
    \/ DictGet(r, "issues", <<>>) # <<>>

\* C8: when attempt k < 3 of a heading is rejected, the notes passed to the
\* writer for attempt k + 1 are the improvement notes of the verdict on attempt
\* k: they are what the workflow reads from that verdict, and they are not
\* empty when that verdict carries notes.
C8_RetryGetsVerdictNotes ==
    (pc = "write_call" /\ attempt >= 2) =>
        /\ improvement_notes = ReviewNotes(review)
        /\ SectionVerdictHasNotes(review) => improvement_notes # EmptyStr

\* C9: in every cycle c >= 2 the first writer attempt of every heading gets
\* the improvement notes of the document review that rejected cycle c - 1 (not
\* empty when that verdict carries notes); in cycle 1 it gets empty notes.
C9_CycleGetsDocNotes ==
    (pc = "write_call" /\ attempt = 1) =>
        /\ cycle = 1 => improvement_notes = EmptyStr
        /\ cycle >= 2 =>
               /\ improvement_notes = FinalNotes(final_review_result)
               /\ DocVerdictHasNotes(final_review_result) =>
                      improvement_notes # EmptyStr

InSections ==
    pc \in { "cycle_start", "heading_loop", "write_call", "review_call",
             "section_done" }

\* C11: attempt k + 1 of a heading is started only after the review of
\* attempt k returned not approved, with one writer call and one review call
\* made per earlier attempt; cycle c + 1 is started only after the document
\* review of cycle c returned not approved; and after a writer, reviewer or
\* document-review call has raised, no call is made again.
C11_RetryOnlyAfterRejection ==
    /\ pc = "write_call" =>
           /\ obs.writes = attempt - 1 /\ obs.reviews = attempt - 1
           /\ obs.rejections = attempt - 1
           /\ attempt >= 2 => ~ReviewApproved(review)
    /\ pc = "review_call" =>
           /\ obs.writes = attempt /\ obs.reviews = attempt - 1
           /\ obs.rejections = attempt - 1
    /\ (InSections /\ cycle >= 2) =>
           /\ obs.doc_reviews = cycle - 1 /\ obs.doc_rejections = cycle - 1
           /\ obs.assemblies = cycle - 1
           /\ obs.doc_approved_in = 0
           /\ ~FinalApproved(final_review_result)
    /\ obs.gw_fatal # {} =>
           /\ pc \in { "finally", "done" }
           /\ obs.gw_after_fatal = 0

C11_Witness == pc = "write_call" /\ attempt = 3 /\ cycle = 2

\* C12: once file discovery has returned an empty list, the job is FAILED
\* with the message "No supported files found in repository", it has no
\* result, execute is in or past its finally clause, and no Gateway call has
\* been made for the job.
C12_NoFilesFailsBeforeGateway ==
    (files = <<>> /\ ~obs.raised /\ pc \notin { "start", "clone", "discover" }) =>
        /\ pc \in { "finally", "done" }
        /\ status = FAILED
        /\ error = "No supported files found in repository"
        /\ exc = error
        /\ result = NoneObj
        /\ ~obs.gw_called
        /\ cycle = 0 /\ headings = <<>> /\ codebase_summary = EmptyStr

C12_Witness ==
    /\ pc = "done" /\ files = <<>> /\ ~obs.raised /\ status = FAILED
    /\ cleanup_calls = 1

\* the edges of the status diagram
StatusEdges ==
    { <<PENDING, CLONING>>, <<CLONING, SUMMARIZING>>,
      <<SUMMARIZING, SELECTING_HEADINGS>>,
      <<SELECTING_HEADINGS, WRITING_SECTIONS>>,
      <<WRITING_SECTIONS, MANAGER_REVIEW>>, <<MANAGER_REVIEW, WRITING_SECTIONS>>,
      <<MANAGER_REVIEW, FINAL_REVIEW>>, <<FINAL_REVIEW, WRITING_SECTIONS>>,
      <<FINAL_REVIEW, COMPLETED>> }
    \cup { <<s, FAILED>> : s \in WorkflowStatus \ Terminal }

\* C13: the status only ever changes along the edges of the status diagram;
\* in particular FINAL_REVIEW is entered only from MANAGER_REVIEW.
C13_StatusFollowsDiagram ==
    [][status' # status => <<status, status'>> \in StatusEdges]_vars

\* C14: COMPLETED and FAILED are terminal: no step changes a status that is
\* COMPLETED or FAILED.
C14_TerminalStatusStays ==
    [][status' # status => status \notin Terminal]_vars

\* the steps after the terminal update (result, finally clause) have run
C14_Witness ==
    /\ pc = "done" /\ status = COMPLETED /\ result # NoneObj
    /\ cleanup_calls = 1

\* C15: whenever the status of a job held by the registry is COMPLETED, a
\* get_result request handled at that moment is answered with the result
\* document, never with an error.
C15_CompletedResultAvailable ==
    (status = COMPLETED /\ job_id \in workflows /\ reply.op = "get_result") =>
        /\ reply.code = 200
        /\ reply.detail = result

\* C16: a FAILED job has its error set to the message of the exception that
\* ended execute and has no result; a get_result request for a FAILED job the
\* registry holds is answered with that message, and one for a job that is
\* neither COMPLETED nor FAILED with 'Job not completed yet', without a
\* document.
C16_FailedSurfacesError ==
    /\ status = FAILED =>
           /\ error # None /\ error = exc
           /\ result = NoneObj
    /\ (reply.op = "get_result" /\ job_id \in workflows /\ status = FAILED) =>
           /\ reply.code = 500
           /\ reply.detail = error
    /\ (reply.op = "get_result" /\ job_id \in workflows /\ status \notin Terminal) =>
           /\ reply.code = 400
           /\ reply.detail = "Job not completed yet"

C16_Witness ==
    /\ reply.op = "get_result" /\ reply.code = 500 /\ status = FAILED
    /\ error \in GatewayErrors /\ cycle = 2

\* C17: the readme of the result is the document assembled in the last
\* executed cycle, and final_review.approved of the result is the verdict of
\* the document review of that same cycle.
C17_ResultIsLastCycle ==
    result # NoneObj =>
        /\ obs.assemblies = cycle /\ obs.doc_reviews = cycle
        /\ result.readme = obs.last_assembled
        /\ result.final_review.approved = (obs.doc_approved_in = cycle)
        /\ result.final_review.approved = FinalApproved(final_review_result)
        /\ obs.doc_rejections = IF result.final_review.approved
                                THEN cycle - 1 ELSE cycle

C17_Witness ==
    /\ result # NoneObj /\ cycle = 3 /\ result.final_review.approved
    /\ obs.doc_rejections = 2

\* the documents of cycle c that hold the title and then, for each selected
\* heading in order, the content one of its attempts returned
OneSectionPerHeading(c) ==
    { CombineSections(repo_name,
                      [ i \in 1..Len(headings) |->
                          SectionEntry(headings[i], Draft(c, i - 1, atts[i])) ])
      : atts \in [ 1..Len(headings) -> 1..max_section_retries ] }

\* C18: the headings are assigned by the selection alone; in every cycle the
\* sections kept so far are those of the first h_idx selected headings, in
\* order; and every assembled document is the title followed by exactly one
\* section content per selected heading, in the selected order.
C18_HeadingsFixed ==
    /\ [][pc # "headings_call" => headings' = headings]_vars
    /\ [](InSections /\ pc # "cycle_start" =>
            /\ h_idx <= Len(headings)
            /\ Len(approved_sections) = h_idx
            /\ \A i \in 1..h_idx : approved_sections[i].heading = headings[i])
    /\ [](obs.assemblies >= 1 =>
            /\ obs.last_assembled \in OneSectionPerHeading(obs.assemblies)
            /\ Len(obs.last_assembled) = 2 + 3 * Len(headings))

C18_Witness ==
    /\ obs.assemblies = 2 /\ Len(headings) = 2 /\ pc = "final_call"
    /\ obs.last_assembled =
           CombineSections(repo_name,
                           << SectionEntry(headings[1], Draft(2, 0, 3)),
                              SectionEntry(headings[2], Draft(2, 1, 1)) >>)

\* C19: when no section verdict was a rejection and the document reviewer
\* approved in the first cycle, the finished job has made exactly one writer
\* call and one section-review call per heading and exactly one
\* document-review call, its result document holds the title and one section
\* per heading in the selected order (the first attempt's content), its status
\* is COMPLETED and the verdict in its result is approved.
C19_FirstTryEverywhere ==
    /\ (~obs.sec_rejected /\ obs.doc_rejections = 0) =>
           /\ \A h \in DOMAIN obs.writes_total :
                  obs.writes_total[h] <= 1 /\ obs.reviews_total[h] <= 1
           /\ obs.doc_reviews <= 1
    /\ (pc = "done" /\ ~obs.sec_rejected /\ obs.doc_approved_in = 1) =>
           /\ obs.writes_total = [ h \in 1..Len(headings) |-> 1 ]
           /\ obs.reviews_total = [ h \in 1..Len(headings) |-> 1 ]
           /\ obs.doc_reviews = 1
           /\ status = COMPLETED
           /\ result # NoneObj
           /\ result.readme =
                  CombineSections(repo_name,
                                  [ i \in 1..Len(headings) |->
                                      SectionEntry(headings[i], Draft(1, i - 1, 1)) ])
           /\ result.headings = headings
           /\ result.final_review.approved

C19_Witness ==
    /\ pc = "done" /\ ~obs.sec_rejected /\ obs.doc_approved_in = 1
    /\ Len(headings) = 2 /\ status = COMPLETED

\* C20: with get_status, get_result and delete requests handled between any
\* two steps of the job, the registry holds the started job exactly until a
\* delete has succeeded: a status or result query answers 'not found' exactly
\* when the job has been deleted (whatever the job's status), a delete leaves
\* the job absent and answers either success or 'not found', and at most one
\* delete succeeds, every later one answering 'not found'.
C20_RegistryLifecycle ==
    /\ workflows \subseteq { job_id }
    /\ (job_id \in workflows) <=> (obs.deletes_ok = 0)
    /\ obs.deletes_ok <= 1
    /\ reply.op \in { "get_status", "get_result" } =>
           ((reply.code = 404) <=> (job_id \notin workflows))
    /\ reply.op = "get_status" /\ job_id \in workflows =>
           reply.code = 200 /\ reply.detail.status = status
    /\ reply.op = "delete" =>
           /\ job_id \notin workflows
           /\ reply \in { NotFound("delete"),
                          [ op |-> "delete", code |-> 200,
                            detail |-> "Job deleted successfully" ] }

C20_Witness ==
    /\ reply = NotFound("delete")
    /\ obs.deletes_ok = 1
    /\ job_id \notin workflows

\* C21: a delete does not touch the running job: the step that removes the
\* job from the registry leaves every variable of the workflow as it was, a
\* job deleted while running still ends in COMPLETED or FAILED, and from the
\* delete on every status or result query answers 'not found'.
C21_DeleteDoesNotCancel ==
    /\ [][workflows' # workflows => UNCHANGED jobVars]_vars
    /\ [](job_id \notin workflows /\ reply.op \in { "get_status", "get_result" } =>
              reply.code = 404)
    /\ (job_id \notin workflows) ~> (pc = "done" /\ status \in Terminal)

C21_Witness ==
    /\ job_id \notin workflows
    /\ obs.gw_after_delete
    /\ pc = "done"
    /\ status = COMPLETED

\* C22: for a review text with a verdict marker, the document reviewer's
\* approval extraction returns true when the window after the marker holds
\* APPROVE and no REJECT, and false when the window holds REJECT and no
\* APPROVE, whatever keywords stand elsewhere (here in the reading kindest to
\* the code: REJECT within the 200 characters the code tests first, APPROVE
\* within the 300 characters it tests last).
C22_VerdictWindowDecides ==
    (call.fn = "final_extract_approval" /\ call.done /\ Has(call.arg, "VERDICT")) =>
        LET first == VerdictSection(call.arg, 200)
            last == VerdictSection(call.arg, 300)
        IN  /\ (SectionHas(last, "APPROVE") /\ ~SectionHas(last, "REJECT")) =>
                   call.out = TRUE
            /\ (SectionHas(first, "REJECT") /\ ~SectionHas(last, "APPROVE")) =>
                   call.out = FALSE

\* C23: for the section reviewer and for the document reviewer, a review text
\* that holds an approval keyword and a rejection keyword and no verdict
\* marker is classified as not approved.
C23_TieIsNotApproved ==
    (/\ call.fn \in { "final_extract_approval", "manager_extract_approval" }
     /\ call.done
     /\ \E k \in approval_keywords : Has(call.arg, k)
     /\ \E k \in rejection_keywords : Has(call.arg, k)
     /\ ~Has(call.arg, "VERDICT")) =>
        call.out = FALSE

\* the token positions of a text where one of the four score patterns matches
PatternAt(toks) ==
    { k \in 1..Len(toks) :
        IsSlashAt(toks, k) \/ IsScoreAt(toks, k) \/ IsOutOfAt(toks, k)
            \/ IsColonAt(toks, k) }

\* some category label of the text is followed, later in the text, by a
\* score pattern
LabelThenPattern(text, category) ==
    LET toks == Flatten(text)
    IN  \E j \in 1..Len(toks) :
            /\ Substr(category, Upper(toks[j]))
            /\ \E k \in PatternAt(toks) : k >= j

\* some line with the category label has a score pattern in it or in the
\* four lines after it
LabelLineWithPattern(text, category) ==
    \E i \in 1..Len(text) :
        /\ LineHas(text[i], category)
        /\ PatternAt(Flatten(SubSeq(text, i, Min(i + 4, Len(text))))) # {}

\* the score extraction has returned (and, where it says so, returned twice)
ScoreReturned == call.fn = "final_extract_score" /\ call.done

\* C24 as stated: the extracted score is an integer in 0..100, a second call
\* on the same text returns the same value, and when no category label
\* followed by a score pattern is found the score is 75 if the approval
\* extraction on the text is true and 60 otherwise.
C24_ScoreDefaultUnlessLabelThenPattern ==
    ScoreReturned =>
        /\ call.out \in 0..100
        /\ call.again # << >> => call.again = << call.out >>
        /\ ~LabelThenPattern(call.arg, call.opt) =>
               call.out = IF FinalExtractApproval(call.arg) THEN 75 ELSE 60

\* C24 (amended): the extracted score is an integer in 0..100, a second call
\* on the same text returns the same value, and when no line holding the
\* category label has a score pattern in it (before or after the label) or in
\* the four lines after it, the score is 75 if the approval extraction on the
\* text is true and 60 otherwise.
C24_ScoreInRangeAndDefault ==
    ScoreReturned =>
        /\ call.out \in 0..100
        /\ call.again # << >> => call.again = << call.out >>
        /\ ~LabelLineWithPattern(call.arg, call.opt) =>
               call.out = IF FinalExtractApproval(call.arg) THEN 75 ELSE 60

C24_Witness ==
    /\ ScoreReturned
    /\ call.again = << 100 >>
    /\ LabelLineWithPattern(call.arg, call.opt)
    /\ Len(call.arg) = MaxScoreLines

\* the level of the heading a line is, 0 if it is none
HeadingLevel(line) ==
    LET stripped == Strip(line)
    IN  IF Len(stripped) < 2 THEN 0
        ELSE CASE stripped[1] = "#" -> 1
               [] stripped[1] = "##" -> 2
               [] stripped[1] = "###" -> 3
               [] OTHER -> 0

\* a fence line that is bare or carries a language identifier and no more
IsPlainFenceLine(line) == Len(Strip(line)) = 1 /\ Strip(line)[1] \in FenceTokens

\* line i lies outside the code blocks that plain fence lines delimit
OutsidePlainFences(text, i) ==
    Cardinality({ j \in 1..i : IsPlainFenceLine(text[j]) }) % 2 = 0

\* the H1 and H2 lines of a text outside those code blocks
TopHeadingLines(text) ==
    { i \in 1..Len(text) :
        HeadingLevel(text[i]) \in { 1, 2 } /\ OutsidePlainFences(text, i) }

\* the text before its second such line, the whole text if it has no second
BeforeSecondTopHeading(text) ==
    LET tops == TopHeadingLines(text)
    IN  IF Cardinality(tops) < 2 THEN text
        ELSE LET second == CHOOSE i \in tops :
                               Cardinality({ j \in tops : j < i }) = 1
             IN  SubSeq(text, 1, second - 1)

TrimReturned == call.fn = "trim_to_single_section" /\ call.done

\* C25: section trimming returns the text before its second top-level heading
\* line (blank space at either end apart): the first H1 or H2 line outside a
\* code block is the section's own, the next one ends the section and it and
\* all after it are discarded, and H3 lines never end the section.  A code
\* block is here one delimited by fence lines that are bare or carry a
\* language identifier only.
C25_TrimKeepsFirstSection ==
    TrimReturned => call.out = StrStrip(BeforeSecondTopHeading(call.arg))

C25_Witness ==
    /\ TrimReturned
    /\ Cardinality(TopHeadingLines(call.arg)) >= 2
    /\ \E i \in 1..Len(call.out) : HeadingLevel(call.out[i]) = 3
    /\ \E i \in 1..Len(call.out) : HeadingLevel(call.out[i]) \in { 1, 2 }
    /\ Len(call.out) < Len(call.arg)

\* after line i of a text a code block is open: a line that starts with a
\* fence marker, whatever follows the marker, opens one, and a plain fence
\* line closes it
RECURSIVE InBlockAfter(_, _)
InBlockAfter(text, i) ==
    IF i = 0 THEN FALSE
    ELSE LET stripped == Strip(text[i])
         IN  IF InBlockAfter(text, i - 1) THEN ~IsPlainFenceLine(text[i])
             ELSE Len(stripped) > 0 /\ stripped[1] \in FenceTokens

\* the H1 and H2 lines of a text that lie in no code block
RealTopHeadingLines(text) ==
    { i \in 1..Len(text) :
        HeadingLevel(text[i]) \in { 1, 2 } /\ ~InBlockAfter(text, i) }

BeforeSecondRealTopHeading(text) ==
    LET tops == RealTopHeadingLines(text)
    IN  IF Cardinality(tops) < 2 THEN text
        ELSE LET second == CHOOSE i \in tops :
                               Cardinality({ j \in tops : j < i }) = 1
             IN  SubSeq(text, 1, second - 1)

\* C26: in section trimming a line that looks like an H1/H2 heading and lies
\* between an opening and a closing fence line is never a section boundary,
\* and an H1/H2 line after the closing fence is one, whether the opening fence
\* line is bare, carries a language identifier, or carries an info string
\* with a space in it: the result is the text before the second H1/H2 line
\* that lies in no code block.
C26_FencedHeadingIsNoBoundary ==
    TrimReturned => call.out = StrStrip(BeforeSecondRealTopHeading(call.arg))

\* the heading line i of a selector answer holds, markers removed
HeadingOfLine(raw, i) == LstripHeadingMarkers(Strip(raw[i]))

\* the lines that hold the first heading of their case class
FirstOccurrences(raw) ==
    { i \in 1..Len(raw) :
        /\ HeadingOfLine(raw, i) # <<>>
        /\ \A j \in 1..(i - 1) :
               LowerLine(HeadingOfLine(raw, j)) # LowerLine(HeadingOfLine(raw, i)) }

HeadingsReturned == call.fn = "headings_process" /\ call.done

\* C27: heading parsing returns no two headings that are equal ignoring case;
\* the k-th heading returned is, as spelled there, the heading of the k-th
\* line that holds the first occurrence of its case class, so first spellings
\* win and the order of first occurrences is kept.
C27_HeadingsDedupFirstWins ==
    HeadingsReturned =>
        LET firsts == FirstOccurrences(call.arg)
        IN  /\ \A a, b \in 1..Len(call.out) :
                   a # b => LowerLine(call.out[a]) # LowerLine(call.out[b])
            /\ Len(call.out) = Cardinality(firsts)
            /\ \A k \in 1..Len(call.out) :
                   \E i \in firsts :
                       /\ Cardinality({ j \in firsts : j < i }) = k - 1
                       /\ call.out[k] = HeadingOfLine(call.arg, i)

C27_Witness ==
    /\ HeadingsReturned
    /\ call.arg = << <<"Features">>, <<"features">>, <<"Installation">> >>
    /\ call.out = << <<"Features">>, <<"Installation">> >>

\* this step makes a writer or a reviewer call for heading i (1-based)
CallsWriter(i) ==
    /\ i \in DOMAIN obs.writes_total /\ i \in DOMAIN obs'.writes_total
    /\ obs'.writes_total[i] > obs.writes_total[i]

CallsReviewer(i) ==
    /\ i \in DOMAIN obs.reviews_total /\ i \in DOMAIN obs'.reviews_total
    /\ obs'.reviews_total[i] > obs.reviews_total[i]

\* C28: within a cycle the headings are processed in the selected order
\* without interleaving: when a writer or reviewer call is made for heading i,
\* the headings with a writer call in this cycle are exactly the first i (none
\* after i has been called, all before i have); the document-review call of a
\* cycle is made after the sections of all headings were written in this
\* cycle and combined, each heading having had a writer call in this cycle,
\* and it is the only one of its cycle.
C28_HeadingsInOrder ==
    /\ [][\A i \in 1..Len(headings) :
             /\ CallsWriter(i) => obs.cyc_written \in { 1..(i - 1), 1..i }
             /\ CallsWriter(i) \/ CallsReviewer(i) => obs'.cyc_written = 1..i]_vars
    /\ [][obs'.doc_reviews > obs.doc_reviews =>
             /\ obs.cyc_written = 1..Len(headings)
             /\ obs.assemblies = cycle
             /\ obs.doc_reviews = cycle - 1
             /\ obs'.doc_reviews = cycle]_vars
    /\ [](obs.doc_reviews <= cycle)

C28_Witness ==
    /\ cycle = 2
    /\ pc = "final_call"
    /\ Len(headings) = 2
    /\ obs.cyc_written = { 1, 2 }
    /\ ~obs.sec_rejected
    /\ obs.doc_reviews = 1

\* C29: the prompt of a section-review request is built from the section
\* content under review: of two requests for the same heading (the digest and
\* the repository are the job's) whose section contents differ, the prompts
\* differ.
C29_ReviewPromptHoldsContent ==
    (/\ obs.review_req # << >>
     /\ obs.prev_review_req # << >>
     /\ obs.review_req.heading = obs.prev_review_req.heading
     /\ obs.review_req.content # obs.prev_review_req.content) =>
        obs.review_req.prompt # obs.prev_review_req.prompt

\* C30: after a rejected section attempt whose review text is not empty, the
\* improvement notes the writer gets for the next attempt are not empty.
C30_RetryNotesNeverEmpty ==
    (/\ pc = "write_call"
     /\ attempt >= 2
     /\ ~ReviewApproved(review)
     /\ DictGet(review, "feedback", EmptyStr) # EmptyStr) =>
        improvement_notes # EmptyStr

\* C31: whatever the deliveries to the progress sink do (succeed, raise, find
\* no connection), the job is FAILED only because a collaborator or agent
\* call raised or no file was found, with that exception's message as its
\* error; a job in which none of this happened ends COMPLETED with its result,
\* and a delivery that fails is never where the handler of execute is entered.
C31_SinkFailureIsNotFatal ==
    /\ status = FAILED =>
           /\ obs.raised \/ error = NoFilesError
           /\ error = exc
    /\ (pc = "done" /\ ~obs.raised /\ files # <<>>) =>
           status = COMPLETED /\ result # NoneObj /\ exc = None
    /\ exc # None => status = FAILED

C31_Witness ==
    /\ pc = "done"
    /\ status = COMPLETED
    /\ result # NoneObj
    /\ sink = "raises"
    /\ obs.doc_reviews = 2

\* C32: a job never becomes FAILED because the artifact store raised: neither
\* a write of an artifact nor the creation of the job's storage directory is
\* what the job's error reports.
C32_StoreFailureIsNotFatal ==
    status = FAILED => error # StorageError

\* C33: with two jobs running, whatever their repositories, every artifact a
\* job has saved is still in the store as that job wrote it, and the
\* COMPLETED job's result names the document it wrote itself: no step of the
\* other job changed them.
C33_JobsShareNothing ==
    \A j \in JobIds :
        /\ \A a \in Artifacts :
               pair.jobs[j].wrote[a] # None =>
                   pair.store[<<pair.jobs[j].storage_dir, a>>] = pair.jobs[j].wrote[a]
        /\ pair.jobs[j].status = COMPLETED =>
               pair.store[<<pair.jobs[j].storage_dir, << "final_reviewer", "README.md" >> >>]
                   = pair.jobs[j].result.readme

\* the lines of the digest: none when the text is empty
DigestLines == IF codebase_summary = EmptyStr THEN << >> ELSE codebase_summary

Range(s) == { s[i] : i \in 1..Len(s) }

C35_HeadingsFromCatalogAndBounded ==
    HeadingsReturned =>
        /\ \A i \in 1..Len(call.out) :
               \E k \in 1..Len(CANDIDATE_HEADINGS) : call.out[i] = CANDIDATE_HEADINGS[k]
        /\ Len(call.out) >= 8
        /\ Len(call.out) <= 14

\* the first line that holds the section's label, 0 if there is none
LabelLine(text, name) ==
    IF Has(text, name)
    THEN CHOOSE i \in 1..Len(text) :
             /\ LineHas(text[i], name)
             /\ \A j \in 1..(i - 1) : ~LineHas(text[j], name)
    ELSE 0

\* the first top-level numbered header after line i, Len + 1 if there is none
NextHeader(text, i) ==
    IF \E j \in (i + 1)..Len(text) : IsNumberedHeader(text[j])
    THEN CHOOSE j \in (i + 1)..Len(text) :
             /\ IsNumberedHeader(text[j])
             /\ \A k \in (i + 1)..(j - 1) : ~IsNumberedHeader(text[k])
    ELSE Len(text) + 1

\* the marker-stripped list items among lines i .. stop - 1, in order (an item
\* with nothing after its marker is none)
RECURSIVE ItemsBetween(_, _, _)
ItemsBetween(text, i, stop) ==
    IF i >= stop THEN << >>
    ELSE LET stripped == Strip(text[i])
             item == LstripMarkers(stripped)
         IN  (IF IsListItemLine(stripped) /\ item # << >> THEN << item >> ELSE << >>)
                 \o ItemsBetween(text, i + 1, stop)

ListReturned == call.fn = "final_extract_list" /\ call.done

\* C36: list extraction returns, marker-stripped and in order, the lines after
\* the label line that begin with a bullet or a numeric-dot marker, up to the
\* next top-level numbered section header, and at most the first 15 of them.
C36_ListIsItemsAfterLabel ==
    ListReturned =>
        LET l == LabelLine(call.arg, call.opt)
        IN  call.out =
                IF l = 0 THEN << >>
                ELSE Take(ItemsBetween(call.arg, l + 1, NextHeader(call.arg, l)), 15)

\* the fence lines strictly between lines a and b of a text
FenceLinesBetween(text, a, b) ==
    { i \in (a + 1)..(b - 1) : StartsWithFence(Strip(text[i])) }

\* the text starts with a fenced block that is closed before the last line,
\* and ends with the closing marker of another fenced block: the first fence
\* line after the opening one is a bare marker, and a later one opens again
TwoFencedBlocks(text) ==
    LET start == FirstNonBlank(text)
        end == LastNonBlank(text)
        inner == FenceLinesBetween(text, start, end)
    IN  /\ start < end
        /\ StartsWithFence(Strip(text[start]))
        /\ IsBareFence(Strip(text[end]))
        /\ Cardinality(inner) = 2
        /\ \A i \in inner : (\A j \in inner : i <= j) => IsBareFence(Strip(text[i]))

\* the whole text is one fenced block: its first line that is not blank
\* opens a fence, its last one is a bare marker, no fence line lies between
OneFenceAround(text) ==
    LET start == FirstNonBlank(text)
        end == LastNonBlank(text)
    IN  /\ start < end
        /\ StartsWithFence(Strip(text[start]))
        /\ IsBareFence(Strip(text[end]))
        /\ FenceLinesBetween(text, start, end) = {}

FenceStripped == call.fn = "strip_markdown_fence" /\ call.done

\* C37: fence stripping returns the lines between the first and the last
\* non-empty line, unchanged, when the whole text is wrapped in one fence; it
\* returns the text unchanged when the first non-empty line opens no fence or
\* the last one is not a bare marker, and when the text starts with one fenced
\* block and ends with a different fenced block.
C37_StripsOnlyOneEnclosingFence ==
    FenceStripped =>
        LET text == call.arg
            start == FirstNonBlank(text)
            end == LastNonBlank(text)
        IN  /\ OneFenceAround(text) =>
                   call.out = IF start + 1 = end THEN EmptyStr
                              ELSE SubSeq(text, start + 1, end - 1)
            /\ (start <= end /\ ~(StartsWithFence(Strip(text[start]))
                                  /\ IsBareFence(Strip(text[end])))) =>
                   call.out = text
            /\ TwoFencedBlocks(text) => call.out = text

\* C38: in every state of a job progress is an integer in 0..100, and it is
\* 100 only when the status is COMPLETED; the values the three progress
\* formulas take stay below 100 for every number of files and of headings up
\* to MaxCount (beyond 40 headings the step per heading is 0) and every cycle.
C38_ProgressInRange ==
    /\ progress \in 0..100
    /\ progress = 100 => status = COMPLETED
    /\ pc = "start" =>
           /\ \A total \in 1..MaxCount : \A i \in 0..(total - 1) :
                  /\ SummarizeProgress(i, total) \in 8..37
                  /\ base_prog(i, total) \in 45..84
           /\ \A c \in 1..max_full_cycles : FinalProgress(c) + 2 \in 90..96

C38_Witness ==
    /\ status = COMPLETED
    /\ progress = 100
    /\ cycle = max_full_cycles
    /\ Len(headings) = 2
    /\ Len(files) = 2

\* C39: execute ends only through a step that calls the repository client's
\* cleanup while the status is already COMPLETED or FAILED and leaves the
\* status as it is; a job that has ended has had at least one cleanup call
\* (two after a clone failure, where clone_repository cleans up itself before
\* the handler runs), and the terminal status is set before the finally clause.
C39_CleanupAfterTerminalStatus ==
    /\ [](pc \in { "finally", "done" } => status \in { COMPLETED, FAILED })
    /\ [](pc = "done" =>
              cleanup_calls = IF error = CloneError THEN 2 ELSE 1)
    /\ [][(pc # "done" /\ pc' = "done") =>
              /\ status \in { COMPLETED, FAILED }
              /\ status' = status
              /\ cleanup_calls' = cleanup_calls + 1]_vars

C39_Witness ==
    /\ pc = "done"
    /\ status = FAILED
    /\ error = CloneError
    /\ cleanup_calls = 2

====
